---- MODULE Spec2Model ----
(***************************************************************************)
(* Session lifecycle and conversation store of the WhatsApp dashboard      *)
(* server (src/server.js, lines 470-1242: the live version of the file).   *)
(*                                                                         *)
(* The JavaScript runs on one event loop: every handler runs to its next   *)
(* await without preemption.  Each action below is one such run: a command *)
(* handler up to its first await, the continuation of an await, a          *)
(* Protocol Client event handler, or a timer callback.                     *)
(*                                                                         *)
(* The Protocol Client (Baileys socket), the Auth State Provider           *)
(* (useMultiFileAuthState) and the file system are the environment: an     *)
(* awaited call of theirs may resolve or reject, at any later step; a      *)
(* constructed client may deliver connection.update events until it has    *)
(* reported close (or has been logged out), also after the registry has    *)
(* dropped it, since the code never ends a discarded client.               *)
(*                                                                         *)
(* Each client carries its own store (chats, contacts, messages), filled   *)
(* by its events and read by the commands through the registry.  The       *)
(* lifecycle is checked under Spec, SpecCreate and SpecReconnect, and with  *)
(* fair timers and creations under SpecRetry; the store under              *)
(* specifications of one connected client (SpecStore, SpecChats,           *)
(* SpecUnread, SpecNames, SpecOrder, SpecSorted, SpecContacts, SpecSend),  *)
(* the commands against a changing registry under SpecQuery, and two       *)
(* session ids side by side under SpecPair.                                *)
(***************************************************************************)
EXTENDS Integers, Sequences, FiniteSets

\* ----------------------------------------------------------------- bounds
\* Protocol Clients constructed per session id over a behaviour.
MaxClients == 3
\* Reconnect timers pending per session id.
MaxTimers == 2
\* createWhatsAppClient calls suspended in useMultiFileAuthState, per id.
MaxPending == 2
\* logout() calls in flight per session id.
MaxLogouts == 1
\* Unread count, and inbound messages counted, per conversation.
MaxUnread == 3
\* Store commands suspended at an await, per session id.
MaxAsking == 1
\* Distinct message ids per conversation where events and commands interleave.
MaxMsgId == 2
\* Messages in one event batch.
MaxBatch == 2
\* Messages of the one conversation whose answers are sorted.
MaxSorted == 3
\* Protocol Clients per session id where two ids are served side by side.
MaxPair == 2
\* Messages of the one conversation whose unread count is followed.
MaxHistory == 5

\* ------------------------------------------------------------- vocabulary
SessionIds == {"s1", "s2"}

\* The id that the specifications of one session serve; the other ids then
\* receive no command and have no client.
Served == {"s1"}

\* clients[id] when the registry has no entry for id (undefined in JS).
NoClient == 0

Socks == 1..MaxClients

\* sessionStatus values; "unknown" stands for an absent entry, as
\* checkSession reports it.
Statuses ==
  {"unknown", "connecting", "qr_generated", "connected", "reconnecting",
   "logged_out", "logging_out", "error"}

\* The session folder under sessionsDir.
FolderStates == {"absent", "empty", "files"}

\* lastDisconnect?.error?.output?.statusCode of a close event.
StatusCodes == {"undefined", "loggedOut", "connectionClosed"}

\* Who called createWhatsAppClient.
Origins == {"generateQR", "reconnectSession", "timer"}

\* Who called logout().
LogoutVias == {"socket", "http"}

\* connection.update payloads: qr present or not, connection field, and the
\* status code of lastDisconnect (read only for a close).
Updates ==
  {u \in [qr : BOOLEAN,
          connection : {"none", "connecting", "open", "close"},
          statusCode : StatusCodes] :
     /\ (u.connection # "close" => u.statusCode = "undefined")
     /\ (u.qr \/ u.connection # "none")}

\* ------------------------------------------------------ conversation store
\* A chat id 'local@domain' as the pair of its parts.
Direct == <<"111", "s.whatsapp.net">>
Group == <<"222", "g.us">>
Broadcast == <<"status", "broadcast">>
Jids == {Direct, Group, Broadcast}

\* A number a protocol record may lack: <<>> is undefined, <<n>> is n.
Undefined == <<>>
Num(n) == <<n>>

\* JavaScript's v || 0 on such a number.
OrZero(v) == IF v = Undefined THEN 0 ELSE v[1]

\* A string field that is not set; it is falsy like the empty string.
Absent == "<absent>"
Falsy(s) == s = "" \/ s = Absent

\* An entry of sock.store.chats; NoChat, with has FALSE, is what a lookup of
\* an id without entry gives.
\* conversationTimestamp and messageTimestamp are seconds, 0 when not set.
NoChat ==
  [has |-> FALSE, name |-> "", subject |-> "", conversationTimestamp |-> 0,
   unreadCount |-> Undefined]

\* An entry of sock.store.contacts.
NoContact == [has |-> FALSE, name |-> Absent, notify |-> Absent]

\* sock.store as createWhatsAppClient initialises it.
EmptyStore == [chats |-> <<>>, contacts |-> <<>>, messages |-> <<>>]

\* A map with the entry of key k set to v, or removed.
Put(f, k, v) == [x \in DOMAIN f \cup {k} |-> IF x = k THEN v ELSE f[x]]
Drop(f, k) == [x \in DOMAIN f \ {k} |-> f[x]]

\* sock.store.chats.get(jid), sock.store.contacts[jid] and
\* sock.store.messages[jid].all(); a conversation without entry reads like
\* one with an empty sequence everywhere, so no empty sequence is kept.
ChatOf(st, jid) == IF jid \in DOMAIN st.chats THEN st.chats[jid] ELSE NoChat
ContactOf(st, jid) ==
  IF jid \in DOMAIN st.contacts THEN st.contacts[jid] ELSE NoContact
MessagesOf(st, jid) ==
  IF jid \in DOMAIN st.messages THEN st.messages[jid] ELSE <<>>

PutChat(st, jid, chat) == [st EXCEPT !.chats = Put(@, jid, chat)]
PutContact(st, jid, contact) == [st EXCEPT !.contacts = Put(@, jid, contact)]
PutMessages(st, jid, list) ==
  [st EXCEPT !.messages = IF list = <<>> THEN Drop(@, jid) ELSE Put(@, jid, list)]

VARIABLES
  clients,        \* registry: session id -> registered client, or NoClient
  sessionStatus,  \* session id -> status
  folder,         \* session id -> state of the session folder
  made,           \* session id -> number of clients constructed so far
  ended,          \* session id -> clients that closed or were logged out
  timers,         \* session id -> number of pending reconnect timers
  creating,       \* session id -> origin -> suspended createWhatsAppClient calls
  loggingOut,     \* session id -> set of logout() calls in flight
  quiet,          \* history: session id -> TRUE from a logged-out close of the
                  \* registered client to the next create or reconnect command
  store,          \* session id -> the sock.store of clients 1, 2, ... in a sequence
  asking,         \* session id -> commands suspended at an await of a client call
  inboundSinceRead, \* history: session id -> client -> conversation -> inbound
                  \* messages accepted since the unread count was last reset
  last            \* what the last step did: operation, emits, reply

vars ==
  <<clients, sessionStatus, folder, made, ended, timers, creating,
    loggingOut, quiet, store, asking, inboundSinceRead, last>>

storeVars == <<store, asking, inboundSinceRead>>

NoId == "-"

\* The payload of a step that is no connection.update.
NoUpdate == [qr |-> FALSE, connection |-> "none", statusCode |-> "undefined"]

\* The record kept in `last`: the handler that ran (op), the session id and
\* client it ran for, who started it (via), the connection.update it handled
\* (u), the subscriber notifications it emitted in order (emits), the
\* response it gave to the caller of the command (reply, <<>> when none) and
\* the client it constructed (built, NoClient when none).
Step(op, id, sock, via, u, emits, reply, built) ==
  [op |-> op, id |-> id, sock |-> sock, via |-> via, u |-> u,
   emits |-> emits, reply |-> reply, built |-> built, data |-> <<>>]

Pending(id) ==
  creating[id]["generateQR"] + creating[id]["reconnectSession"]
    + creating[id]["timer"]

\* Clients that may still deliver events.
LiveSocks(id) == (1..made[id]) \ ended[id]

\* Bound of the model: a creation may start only if its client fits.
CanCreate(id) ==
  /\ Pending(id) < MaxPending
  /\ made[id] + Pending(id) < MaxClients

Init ==
  /\ clients = [id \in SessionIds |-> NoClient]
  /\ sessionStatus = [id \in SessionIds |-> "unknown"]
  /\ folder \in [SessionIds -> {"absent", "files"}]
  /\ made = [id \in SessionIds |-> 0]
  /\ ended = [id \in SessionIds |-> {}]
  /\ timers = [id \in SessionIds |-> 0]
  /\ creating = [id \in SessionIds |-> [o \in Origins |-> 0]]
  /\ loggingOut = [id \in SessionIds |-> {}]
  /\ quiet = [id \in SessionIds |-> FALSE]
  /\ store = [id \in SessionIds |-> <<>>]
  /\ asking = [id \in SessionIds |-> {}]
  /\ inboundSinceRead = [id \in SessionIds |-> <<>>]
  /\ last = Step("init", NoId, NoClient, "-", NoUpdate, <<>>, <<>>, NoClient)

\* ------------------------------------------------- createWhatsAppClient
\* Mutant of ClientExists: the handle is looked up by status, not by registry.
ClientExistsByStatus(id) == sessionStatus[id] = "connected"

\* Truthiness of clients[sessionId].
ClientExists(id) == clients[id] # NoClient

\* createWhatsAppClient up to its await of useMultiFileAuthState: the call
\* is suspended, nothing is registered yet.
Suspend(id, origin) ==
  [creating EXCEPT ![id][origin] = @ + 1]

Resume(id, origin) ==
  [creating EXCEPT ![id][origin] = @ - 1]

\* useMultiFileAuthState creates the session folder when it is missing.
FolderAfterAuthState(f) == IF f = "absent" THEN "empty" ELSE f

\* What the command that awaited createWhatsAppClient answers once the call
\* returns (the sock or null): the timer callback answers nobody.
ReplyAfterCreate(origin) ==
  IF origin = "timer" THEN <<>> ELSE <<"success">>

\* useMultiFileAuthState resolved and makeWASocket returned: the client is
\* registered and the status set.
CreateRegistered(id, origin) ==
  /\ store' = [store EXCEPT ![id] = Append(@, EmptyStore)]
  /\ inboundSinceRead' =
       [inboundSinceRead EXCEPT ![id] = Append(@, [j \in Jids |-> 0])]
  /\ UNCHANGED asking
  /\ creating[id][origin] > 0
  /\ made[id] < MaxClients
  /\ LET c == made[id] + 1 IN
       /\ made' = [made EXCEPT ![id] = c]
       /\ clients' = [clients EXCEPT ![id] = c]
       /\ sessionStatus' = [sessionStatus EXCEPT ![id] = "connecting"]
       /\ folder' = [folder EXCEPT ![id] = FolderAfterAuthState(@)]
       /\ creating' = Resume(id, origin)
       /\ last' = Step("createWhatsAppClient", id, c, origin, NoUpdate, <<>>,
                       ReplyAfterCreate(origin), c)
       /\ UNCHANGED <<quiet, ended, timers, loggingOut>>

\* useMultiFileAuthState rejected (stage "provider") or makeWASocket threw
\* (stage "construct"): the catch block.
CreateFailed(id, origin, stage) ==
  /\ UNCHANGED storeVars
  /\ creating[id][origin] > 0
  /\ sessionStatus' = [sessionStatus EXCEPT ![id] = "error"]
  /\ folder' = IF stage = "construct"
               THEN [folder EXCEPT ![id] = FolderAfterAuthState(@)]
               ELSE folder
  /\ creating' = Resume(id, origin)
  /\ last' = Step("createWhatsAppClient", id, NoClient, origin, NoUpdate,
                  <<"error">>, ReplyAfterCreate(origin), NoClient)
  /\ UNCHANGED <<quiet, clients, made, ended, timers, loggingOut>>

\* ------------------------------------------------------ create / reconnect
\* Mutant of Discard: the handles of all session ids are deleted.
DiscardEvery(id) == [i \in SessionIds |-> NoClient]

\* delete clients[sessionId]
Discard(id) == [clients EXCEPT ![id] = NoClient]

\* socket.on('generateQR')
GenerateQR(id) ==
  /\ UNCHANGED storeVars
  /\ quiet' = [quiet EXCEPT ![id] = FALSE]
  /\ IF ClientExists(id)
     THEN /\ last' = Step("generateQR", id, clients[id], "-", NoUpdate, <<>>,
                          <<"success", sessionStatus[id]>>, NoClient)
          /\ UNCHANGED <<clients, sessionStatus, folder, made, ended, timers,
                         creating, loggingOut>>
     ELSE /\ CanCreate(id)
          /\ creating' = Suspend(id, "generateQR")
          /\ last' = Step("generateQR", id, NoClient, "-", NoUpdate, <<>>, <<>>,
                          NoClient)
          /\ UNCHANGED <<clients, sessionStatus, folder, made, ended, timers,
                         loggingOut>>

\* Mutant of sessionExists: the folder is looked up, its content is not.
sessionExistsFolderOnly(id) == folder[id] # "absent"

\* sessionExists: the folder exists and holds at least one file.
sessionExists(id) == folder[id] = "files"

\* socket.on('reconnectSession')
ReconnectSession(id) ==
  /\ UNCHANGED storeVars
  /\ quiet' = [quiet EXCEPT ![id] = FALSE]
  /\ IF ~sessionExists(id)
     THEN /\ last' = Step("reconnectSession", id, clients[id], "-", NoUpdate,
                          <<>>, <<"error", "Session does not exist">>, NoClient)
          /\ UNCHANGED <<clients, sessionStatus, folder, made, ended, timers,
                         creating, loggingOut>>
     ELSE /\ CanCreate(id)
          /\ clients' = Discard(id)
          /\ creating' = Suspend(id, "reconnectSession")
          /\ last' = Step("reconnectSession", id, clients[id], "-", NoUpdate,
                          <<>>, <<>>, NoClient)
          /\ UNCHANGED <<sessionStatus, folder, made, ended, timers, loggingOut>>

\* ------------------------------------------------------- connection.update
\* shouldReconnect of the close branch.
ShouldReconnect(code) == code # "loggedOut"

IsOpen(u) == u.connection = "open"
IsTransientClose(u) == u.connection = "close" /\ ShouldReconnect(u.statusCode)
IsLoggedOutClose(u) == u.connection = "close" /\ ~ShouldReconnect(u.statusCode)

\* sessionStatus[sessionId] after the three ifs of the handler have run.
StatusAfterUpdate(st, u) ==
  CASE IsOpen(u) -> "connected"
    [] IsTransientClose(u) -> "reconnecting"
    [] IsLoggedOutClose(u) -> "logged_out"
    [] u.qr -> "qr_generated"
    [] OTHER -> st

\* The notifications of the handler, in the order of its ifs.
EmitsOfUpdate(u) ==
  (IF u.qr THEN <<"qrCode">> ELSE <<>>)
    \o (IF IsOpen(u) THEN <<"ready">> ELSE <<>>)
    \o (IF IsTransientClose(u) THEN <<"disconnected">> ELSE <<>>)
    \o (IF IsLoggedOutClose(u) THEN <<"loggedOut">> ELSE <<>>)

\* Mutant of RegistryAfterUpdate: every close deletes the registry entry.
RegistryAfterAnyClose(c, u) == IF u.connection = "close" THEN NoClient ELSE c

\* clients[sessionId] after the handler: only a logged-out close deletes it.
RegistryAfterUpdate(c, u) == IF IsLoggedOutClose(u) THEN NoClient ELSE c

\* setTimeout calls of the handler.
TimersArmed(u) == IF IsTransientClose(u) THEN 1 ELSE 0

\* writeFileSync of connection_info.json: throws when the folder is gone.
FolderAfterUpdate(f, u) == IF IsOpen(u) /\ f # "absent" THEN "files" ELSE f

\* What sock.ev.on('connection.update') of client c of session id does to
\* the session, up to the end of its ifs or to the await of fetchChats in
\* the open branch.
HandleUpdate(id, c, u) ==
  /\ UNCHANGED <<store, inboundSinceRead>>
  /\ c \in LiveSocks(id)
  /\ timers[id] + TimersArmed(u) <= MaxTimers
  /\ sessionStatus' = [sessionStatus EXCEPT ![id] = StatusAfterUpdate(@, u)]
  /\ clients' = [clients EXCEPT ![id] = RegistryAfterUpdate(@, u)]
  /\ folder' = [folder EXCEPT ![id] = FolderAfterUpdate(@, u)]
  /\ timers' = [timers EXCEPT ![id] = @ + TimersArmed(u)]
  /\ ended' = IF u.connection = "close"
              THEN [ended EXCEPT ![id] = @ \cup {c}]
              ELSE ended
  /\ quiet' = IF IsLoggedOutClose(u) /\ clients[id] = c
              THEN [quiet EXCEPT ![id] = TRUE]
              ELSE quiet
  /\ last' = Step("connection.update", id, c, "-", u, EmitsOfUpdate(u), <<>>,
                  NoClient)
  /\ UNCHANGED <<made, creating, loggingOut>>

\* sock.ev.on('connection.update') as one step: what follows the await of
\* fetchChats writes nothing but the log, so it is taken with the handler.
ConnectionUpdate(id, c, u) ==
  /\ HandleUpdate(id, c, u)
  /\ UNCHANGED asking

\* sock.ev.on('creds.update'): saveCreds writes creds.json into the folder.
CredsUpdate(id, c) ==
  /\ UNCHANGED storeVars
  /\ c \in LiveSocks(id)
  /\ folder' = [folder EXCEPT ![id] = IF @ = "absent" THEN @ ELSE "files"]
  /\ last' = Step("creds.update", id, c, "-", NoUpdate, <<>>, <<>>, NoClient)
  /\ UNCHANGED <<quiet, clients, sessionStatus, made, ended, timers, creating,
                 loggingOut>>

\* Mutant of TimerRecheck: the callback reconnects without the re-check.
TimerNoRecheck(id) == TRUE

\* The re-check of the setTimeout callback.
TimerRecheck(id) == sessionStatus[id] = "reconnecting"

\* The setTimeout callback of the close branch.
TimerFired(id) ==
  /\ UNCHANGED storeVars
  /\ timers[id] > 0
  /\ timers' = [timers EXCEPT ![id] = @ - 1]
  /\ IF TimerRecheck(id)
     THEN /\ CanCreate(id)
          /\ clients' = Discard(id)
          /\ creating' = Suspend(id, "timer")
          /\ last' = Step("timer", id, clients[id], "reconnect", NoUpdate,
                          <<>>, <<>>, NoClient)
     ELSE /\ last' = Step("timer", id, clients[id], "noop", NoUpdate, <<>>,
                          <<>>, NoClient)
          /\ UNCHANGED <<quiet, clients, creating>>
  /\ UNCHANGED <<quiet, sessionStatus, folder, made, ended, loggingOut>>

\* ------------------------------------------------------------------ logout
\* A logout() call in flight: the client it was invoked on and the handler
\* that awaits it.
LogoutCall(c, via) == [sock |-> c, via |-> via]

CanLogout(id, c, via) ==
  /\ LogoutCall(c, via) \notin loggingOut[id]
  /\ Cardinality(loggingOut[id]) < MaxLogouts

\* socket.on('logout') up to its await of logout().
Logout(id) ==
  /\ UNCHANGED storeVars
  /\ IF ClientExists(id)
     THEN /\ CanLogout(id, clients[id], "socket")
          /\ sessionStatus' = [sessionStatus EXCEPT ![id] = "logging_out"]
          /\ loggingOut' =
               [loggingOut EXCEPT ![id] = @ \cup {LogoutCall(clients[id], "socket")}]
          /\ last' = Step("logout", id, clients[id], "socket", NoUpdate, <<>>,
                          <<>>, NoClient)
          /\ UNCHANGED <<quiet, clients, folder, made, ended, timers, creating>>
     ELSE /\ last' = Step("logout", id, NoClient, "socket", NoUpdate,
                          <<"logoutError">>, <<"error", "Session not found">>,
                          NoClient)
          /\ UNCHANGED <<quiet, clients, sessionStatus, folder, made, ended, timers,
                         creating, loggingOut>>

\* app.post('/logout') up to the response: logout() is started, not awaited.
HttpLogout(id) ==
  /\ UNCHANGED storeVars
  /\ IF ClientExists(id)
     THEN /\ CanLogout(id, clients[id], "http")
          /\ loggingOut' =
               [loggingOut EXCEPT ![id] = @ \cup {LogoutCall(clients[id], "http")}]
          /\ last' = Step("logout", id, clients[id], "http", NoUpdate, <<>>,
                          <<"success", "Logout initiated">>, NoClient)
          /\ UNCHANGED <<quiet, clients, sessionStatus, folder, made, ended, timers,
                         creating>>
     ELSE /\ last' = Step("logout", id, NoClient, "http", NoUpdate, <<>>,
                          <<"error", "Session not found">>, NoClient)
          /\ UNCHANGED <<quiet, clients, sessionStatus, folder, made, ended, timers,
                         creating, loggingOut>>

\* What the continuation of a resolved logout() emits and answers: the socket
\* handler notifies and calls back, the HTTP handler has answered already.
EmitsAfterLogout(via) == IF via = "socket" THEN <<"logoutSuccess">> ELSE <<>>
ReplyAfterLogout(via) == IF via = "socket" THEN <<"success">> ELSE <<>>

\* Mutant of FolderAfterLogout: the session folder is not deleted.
FolderKeptAfterLogout(f) == f

\* fs.rmSync of the session folder after a resolved logout().
FolderAfterLogout(f) == "absent"

\* logout() resolved: the code after the await, or the then callback.
LogoutResolved(id, call) ==
  /\ UNCHANGED storeVars
  /\ call \in loggingOut[id]
  /\ loggingOut' = [loggingOut EXCEPT ![id] = @ \ {call}]
  /\ clients' = Discard(id)
  /\ folder' = [folder EXCEPT ![id] = FolderAfterLogout(@)]
  /\ sessionStatus' = [sessionStatus EXCEPT ![id] = "logged_out"]
  /\ ended' = [ended EXCEPT ![id] = @ \cup {call.sock}]
  /\ last' = Step("logoutResolved", id, call.sock, call.via, NoUpdate,
                  EmitsAfterLogout(call.via), ReplyAfterLogout(call.via),
                  NoClient)
  /\ UNCHANGED <<quiet, made, timers, creating>>

EmitsAfterLogoutError(via) == IF via = "socket" THEN <<"logoutError">> ELSE <<>>
ReplyAfterLogoutError(via) == IF via = "socket" THEN <<"error">> ELSE <<>>

\* The registry entry after the catch of a rejected logout().
RegistryAfterLogoutError(c) == c

\* logout() rejected: the catch block, or the catch callback.
LogoutRejected(id, call) ==
  /\ UNCHANGED storeVars
  /\ call \in loggingOut[id]
  /\ loggingOut' = [loggingOut EXCEPT ![id] = @ \ {call}]
  /\ clients' = [clients EXCEPT ![id] = RegistryAfterLogoutError(@)]
  /\ sessionStatus' = [sessionStatus EXCEPT ![id] = "error"]
  /\ last' = Step("logoutRejected", id, call.sock, call.via, NoUpdate,
                  EmitsAfterLogoutError(call.via),
                  ReplyAfterLogoutError(call.via), NoClient)
  /\ UNCHANGED <<quiet, folder, made, ended, timers, creating>>

\* --------------------------------------------------------- store contents
\* Mutant of HasMessage: no message is ever found in the sequence.
HasMessageNever(list, mid) == FALSE

\* messages.some(existingMsg => existingMsg.key.id === msg.key.id)
HasMessage(list, mid) == \E i \in 1..Len(list) : list[i].id = mid

\* Mutant of UpsertChat: the timestamp of an entry never goes back.
UpsertChatNewest(chat, msg) ==
  IF ~chat.has
  THEN [NoChat EXCEPT !.has = TRUE,
                      !.conversationTimestamp = msg.ts,
                      !.unreadCount = Num(IF msg.fromMe THEN 0 ELSE 1)]
  ELSE [chat EXCEPT !.conversationTimestamp = IF msg.ts > @ THEN msg.ts ELSE @,
                    !.unreadCount = IF msg.fromMe THEN @
                                    ELSE Num(OrZero(@) + 1)]

\* The chat entry after a message was appended to its conversation.
UpsertChat(chat, msg) ==
  IF ~chat.has
  THEN [NoChat EXCEPT !.has = TRUE,
                      !.conversationTimestamp = msg.ts,
                      !.unreadCount = Num(IF msg.fromMe THEN 0 ELSE 1)]
  ELSE [chat EXCEPT !.conversationTimestamp = msg.ts,
                    !.unreadCount = IF msg.fromMe THEN @
                                    ELSE Num(OrZero(@) + 1)]

\* Mutant of IngestMessage: a message of the status broadcast is stored
\* like any other.
IngestMessageAnyJid(st, msg) ==
  IF HasMessage(MessagesOf(st, msg.jid), msg.id)
  THEN st
  ELSE PutChat(PutMessages(st, msg.jid, Append(MessagesOf(st, msg.jid), msg)),
               msg.jid, UpsertChat(ChatOf(st, msg.jid), msg))

\* One iteration of the loop of messages.upsert.
IngestMessage(st, msg) ==
  IF msg.jid = Broadcast \/ HasMessage(MessagesOf(st, msg.jid), msg.id)
  THEN st
  ELSE PutChat(PutMessages(st, msg.jid, Append(MessagesOf(st, msg.jid), msg)),
               msg.jid, UpsertChat(ChatOf(st, msg.jid), msg))

RECURSIVE IngestAll(_, _)
IngestAll(st, batch) ==
  IF batch = <<>> THEN st
  ELSE IngestAll(IngestMessage(st, Head(batch)), Tail(batch))

\* Inbound messages of a batch that the loop appends to conversation jid.
RECURSIVE InboundAccepted(_, _, _)
InboundAccepted(st, batch, jid) ==
  IF batch = <<>> THEN 0
  ELSE LET msg == Head(batch) IN
         (IF msg.jid = jid /\ ~msg.fromMe
               /\ IngestMessage(st, msg) # st
          THEN 1 ELSE 0)
         + InboundAccepted(IngestMessage(st, msg), Tail(batch), jid)

\* Mutant of MarkRead: the unread count is left as it is.
MarkReadKeeps(st, jid) == st

\* if (sock.store.chats.has(jid)) chat.unreadCount = 0
MarkRead(st, jid) ==
  IF ChatOf(st, jid).has
  THEN PutChat(st, jid, [ChatOf(st, jid) EXCEPT !.unreadCount = Num(0)])
  ELSE st

\* sock.store.chats.set(chat.id, chat): the record of the protocol replaces
\* the entry.
SetChat(st, chat) ==
  PutChat(st, chat.id,
          [has |-> TRUE, name |-> chat.name, subject |-> chat.subject,
           conversationTimestamp |-> chat.conversationTimestamp,
           unreadCount |-> chat.unreadCount])

RECURSIVE SetChats(_, _)
SetChats(st, chats) ==
  IF chats = <<>> THEN st
  ELSE SetChats(SetChat(st, Head(chats)), Tail(chats))

\* Mutant of MergeContact: the update replaces the record.
MergeContactReplaces(st, contact) ==
  PutContact(st, contact.id,
             [has |-> TRUE, name |-> contact.name, notify |-> contact.notify])

\* Object.assign(sock.store.contacts[contact.id], contact): the fields the
\* update carries overwrite, the others stay.
MergeContact(st, contact) ==
  LET old == ContactOf(st, contact.id) IN
    PutContact(st, contact.id,
               [has |-> TRUE,
                name |-> IF contact.name = Absent THEN old.name
                         ELSE contact.name,
                notify |-> IF contact.notify = Absent THEN old.notify
                           ELSE contact.notify])

RECURSIVE MergeContacts(_, _)
MergeContacts(st, contacts) ==
  IF contacts = <<>> THEN st
  ELSE MergeContacts(MergeContact(st, Head(contacts)), Tail(contacts))

\* The loop of messages.update: a READ status resets the unread count.
RECURSIVE ApplyUpdates(_, _)
ApplyUpdates(st, updates) ==
  IF updates = <<>> THEN st
  ELSE LET up == Head(updates) IN
         ApplyUpdates(IF up.jid # Broadcast /\ up.status = "READ"
                      THEN MarkRead(st, up.jid) ELSE st,
                      Tail(updates))

\* The chatUpdate notifications of messages.update, one per reset.
RECURSIVE EmitsOfUpdates(_, _)
EmitsOfUpdates(st, updates) ==
  IF updates = <<>> THEN <<>>
  ELSE LET up == Head(updates) IN
         (IF up.jid # Broadcast /\ up.status = "READ" /\ ChatOf(st, up.jid).has
          THEN <<"chatUpdate">> ELSE <<>>)
         \o EmitsOfUpdates(st, Tail(updates))

\* Mutant of ChatUpdatesOf: a read update of a conversation the store does
\* not hold is notified too.
RECURSIVE ChatUpdatesOfAnyChat(_, _)
ChatUpdatesOfAnyChat(st, updates) ==
  IF updates = <<>> THEN <<>>
  ELSE LET up == Head(updates) IN
         (IF up.jid # Broadcast /\ up.status = "READ"
          THEN <<[jid |-> up.jid, unread |-> 0]>> ELSE <<>>)
         \o ChatUpdatesOfAnyChat(st, Tail(updates))

\* The chat objects of those notifications: { jid: jid, unread: 0 }.
RECURSIVE ChatUpdatesOf(_, _)
ChatUpdatesOf(st, updates) ==
  IF updates = <<>> THEN <<>>
  ELSE LET up == Head(updates) IN
         (IF up.jid # Broadcast /\ up.status = "READ" /\ ChatOf(st, up.jid).has
          THEN <<[jid |-> up.jid, unread |-> 0]>> ELSE <<>>)
         \o ChatUpdatesOf(st, Tail(updates))

\* ----------------------------------------------- getChats / getChatMessages
\* formatPhoneNumber: jid.split('@')[0].
formatPhoneNumber(jid) == jid[1]

\* The time string '' of an entry without a last message.
NoTime == <<>>

\* formatTime of new Date(ts * 1000): the string 'HH:MM' as the pair of its
\* two-digit numbers (24-hour clock, UTC).
formatTime(ts) == <<(ts % 86400) \div 3600, (ts % 3600) \div 60>>

\* a < b for two 'HH:MM' strings, as localeCompare orders them.
TimeLess(a, b) == a[1] < b[1] \/ (a[1] = b[1] /\ a[2] < b[2])

\* message.conversation || message.extendedTextMessage.text || 'Media message'
MessageText(msg) ==
  IF msg.conversation # "" THEN msg.conversation
  ELSE IF msg.extendedText # "" THEN msg.extendedText
  ELSE "Media message"

\* Mutant of IsListed: the status broadcast is listed like any chat.
IsListedAlways(jid) == TRUE

\* if (chat.id === 'status@broadcast') return null, and the filter of nulls.
IsListed(jid) == jid # Broadcast

\* Mutant of ContactName: the notify name goes before the contact name.
ContactNameNotifyFirst(contact, jid) ==
  IF ~Falsy(contact.notify) THEN contact.notify
  ELSE IF ~Falsy(contact.name) THEN contact.name
  ELSE formatPhoneNumber(jid)

\* contact?.name || contact?.notify || formatPhoneNumber(chat.id)
ContactName(contact, jid) ==
  IF ~Falsy(contact.name) THEN contact.name
  ELSE IF ~Falsy(contact.notify) THEN contact.notify
  ELSE formatPhoneNumber(jid)

\* The name of a listed chat: the if / else-if chain and the final
\* name || formatPhoneNumber(chat.id).
ChatName(st, jid) ==
  LET chat == ChatOf(st, jid)
      name == IF ~Falsy(chat.name) THEN chat.name
              ELSE IF jid[2] = "s.whatsapp.net"
                   THEN ContactName(ContactOf(st, jid), jid)
              ELSE IF jid[2] = "g.us"
                   THEN (IF ~Falsy(chat.subject) THEN chat.subject ELSE "Group")
              ELSE ""
  IN IF ~Falsy(name) THEN name ELSE formatPhoneNumber(jid)

\* Mutant of FormatChat: the last message is the one with the greatest
\* timestamp.
FormatChatLatest(st, jid) ==
  LET list == MessagesOf(st, jid)
      n == IF list = <<>> THEN 0
           ELSE CHOOSE i \in 1..Len(list) :
                  \A k \in 1..Len(list) : list[k].ts <= list[i].ts
  IN [jid |-> jid,
      name |-> ChatName(st, jid),
      lastMessage |-> IF n > 0 THEN MessageText(list[n]) ELSE "",
      time |-> IF n > 0 /\ list[n].ts # 0 THEN formatTime(list[n].ts)
               ELSE NoTime,
      unread |-> OrZero(ChatOf(st, jid).unreadCount)]

\* One entry of the result of getChats.
FormatChat(st, jid) ==
  LET list == MessagesOf(st, jid)
      n == Len(list)
  IN [jid |-> jid,
      name |-> ChatName(st, jid),
      lastMessage |-> IF n > 0 THEN MessageText(list[n]) ELSE "",
      time |-> IF n > 0 /\ list[n].ts # 0 THEN formatTime(list[n].ts)
               ELSE NoTime,
      unread |-> OrZero(ChatOf(st, jid).unreadCount)]

\* The comparator of getChats puts a strictly before b.
ChatPrecedes(a, b) ==
  /\ a.time # NoTime
  /\ (b.time = NoTime \/ TimeLess(b.time, a.time))

\* The results filteredChats.sort can give: the listed chats in an order the
\* comparator agrees with; entries it does not order (equal time strings,
\* two entries without one) keep the insertion order of the map, which the
\* store does not record.
ChatOrders(st) ==
  LET listed == {FormatChat(st, j) :
                   j \in {k \in DOMAIN st.chats : IsListed(k)}}
      n == Cardinality(listed)
  IN {r \in [1..n -> listed] :
        /\ \A i, j \in 1..n : i # j => r[i] # r[j]
        /\ \A i, j \in 1..n : i < j => ~ChatPrecedes(r[j], r[i])}

\* One entry of the result of getChatMessages.
FormatMessage(msg) ==
  [id |-> msg.id, fromMe |-> msg.fromMe, text |-> MessageText(msg),
   time |-> IF msg.ts # 0 THEN formatTime(msg.ts) ELSE NoTime,
   timestamp |-> msg.ts]

\* Mutant of MessagePrecedes: the newest message goes first.
MessagePrecedesNewestFirst(a, b) ==
  \/ a.timestamp = 0 /\ b.timestamp # 0
  \/ a.timestamp # 0 /\ b.timestamp # 0 /\ a.timestamp > b.timestamp

\* The comparator of getChatMessages puts a strictly before b.
MessagePrecedes(a, b) ==
  \/ a.timestamp = 0 /\ b.timestamp # 0
  \/ a.timestamp # 0 /\ b.timestamp # 0 /\ a.timestamp < b.timestamp

\* The results formattedMessages.sort can give: the sort is stable, so equal
\* timestamps keep the order of the store; two entries without a timestamp
\* are not ordered by the comparator.
MessageOrders(list) ==
  LET n == Len(list)
      f == [i \in 1..n |-> FormatMessage(list[i])]
      perms == {p \in [1..n -> 1..n] :
                  /\ \A i, j \in 1..n : i # j => p[i] # p[j]
                  /\ \A i, j \in 1..n : i < j =>
                       /\ ~MessagePrecedes(f[p[j]], f[p[i]])
                       /\ (f[p[i]].timestamp # 0
                             /\ f[p[i]].timestamp = f[p[j]].timestamp
                           => p[i] < p[j])}
  IN {[i \in 1..n |-> f[p[i]]] : p \in perms}

\* ------------------------------------------------------------ store events
lifeVars ==
  <<clients, sessionStatus, folder, made, ended, timers, creating,
    loggingOut, quiet>>

\* Bound of the model: the counters of a store stay within MaxUnread.
WithinUnread(st, counts) ==
  \A j \in Jids :
    /\ OrZero(ChatOf(st, j).unreadCount) <= MaxUnread
    /\ counts[j] <= MaxUnread

\* The messages a store holds in the conversations S.
RECURSIVE Stored(_, _)
Stored(st, S) ==
  IF S = {} THEN 0
  ELSE LET j == CHOOSE x \in S : TRUE IN
         Len(MessagesOf(st, j)) + Stored(st, S \ {j})

\* The messages of a batch that the loop skips as status broadcasts.
Skipped(batch) == Cardinality({i \in 1..Len(batch) : batch[i].jid = Broadcast})

\* Mutant of NewMessagePayload: only the messages of the conversations the
\* store keeps are forwarded.
NewMessagePayloadStored(batch) ==
  SelectSeq(batch, LAMBDA m : m.jid # Broadcast)

\* The messages of the newMessage notification: m.messages as received.
NewMessagePayload(batch) == batch

\* sock.ev.on('messages.upsert') of client c: only a batch of type notify is
\* stored and forwarded. The step records the length of the batch, the
\* messages it appended, the broadcasts it skipped and the messages it
\* forwarded.
MessagesUpsert(id, c, type, batch) ==
  /\ c \in LiveSocks(id)
  /\ LET st == store[id][c]
         new == IF type = "notify" THEN IngestAll(st, batch) ELSE st
         counts == [j \in Jids |->
                      inboundSinceRead[id][c][j]
                        + (IF type = "notify"
                           THEN InboundAccepted(st, batch, j) ELSE 0)]
     IN /\ WithinUnread(new, counts)
        /\ store' = [store EXCEPT ![id][c] = new]
        /\ inboundSinceRead' = [inboundSinceRead EXCEPT ![id][c] = counts]
        /\ last' = [Step("messages.upsert", id, c, type, NoUpdate,
                          IF type = "notify" THEN <<"newMessage">> ELSE <<>>,
                          <<>>, NoClient)
                       EXCEPT !.data = <<Len(batch),
                                         Stored(new, Jids) - Stored(st, Jids),
                                         Skipped(batch),
                                         IF type = "notify"
                                         THEN NewMessagePayload(batch)
                                         ELSE <<>>>>]
  /\ UNCHANGED <<lifeVars, asking>>

\* The body shared by chats.set and chats.upsert.
StoreChats(id, c, op, chats) ==
  /\ c \in LiveSocks(id)
  /\ store' = [store EXCEPT ![id][c] = SetChats(@, chats)]
  /\ last' = Step(op, id, c, "-", NoUpdate, <<>>, <<>>, NoClient)
  /\ UNCHANGED <<lifeVars, asking, inboundSinceRead>>

\* sock.ev.on('chats.set')
ChatsSet(id, c, chats) == StoreChats(id, c, "chats.set", chats)

\* sock.ev.on('chats.upsert')
ChatsUpsert(id, c, chats) == StoreChats(id, c, "chats.upsert", chats)

\* sock.ev.on('contacts.update'); the step records the updates it handled.
ContactsUpdate(id, c, contacts) ==
  /\ c \in LiveSocks(id)
  /\ store' = [store EXCEPT ![id][c] = MergeContacts(@, contacts)]
  /\ last' = [Step("contacts.update", id, c, "-", NoUpdate, <<>>, <<>>, NoClient)
                 EXCEPT !.data = contacts]
  /\ UNCHANGED <<lifeVars, asking, inboundSinceRead>>

\* sock.ev.on('messages.update'); the step records the updates it handled
\* and the chat objects it notified.
MessagesUpdate(id, c, updates) ==
  /\ c \in LiveSocks(id)
  /\ store' = [store EXCEPT ![id][c] = ApplyUpdates(@, updates)]
  /\ inboundSinceRead' =
       [inboundSinceRead EXCEPT ![id][c] =
          [j \in Jids |->
             IF \E i \in 1..Len(updates) :
                  /\ updates[i].jid = j
                  /\ j # Broadcast
                  /\ updates[i].status = "READ"
             THEN 0 ELSE @[j]]]
  /\ last' = [Step("messages.update", id, c, "-", NoUpdate,
                    EmitsOfUpdates(store[id][c], updates), <<>>, NoClient)
                 EXCEPT !.data = <<updates,
                                   ChatUpdatesOf(store[id][c], updates)>>]
  /\ UNCHANGED <<lifeVars, asking>>

\* ---------------------------------------------------------- store commands
NoJid == <<"-", "-">>

\* A command suspended at an await of a call of client c.
Call(op, c, jid, stage) == [op |-> op, sock |-> c, jid |-> jid, stage |-> stage]

\* Bound of the model: at most MaxAsking commands are suspended per id.
CanAsk(id, call) ==
  /\ call \notin asking[id]
  /\ Cardinality(asking[id]) < MaxAsking

\* callback(...) of a command: the response and its payload.
Answer(op, id, c, via, reply, data) ==
  [Step(op, id, c, via, NoUpdate, <<>>, reply, NoClient) EXCEPT !.data = data]

\* Mutant of ClientNotFound: the command answers an empty success.
ClientNotFoundAsSuccess == <<"success">>

\* What every store command answers when clients[sessionId] is not set.
ClientNotFound == <<"error", "Client not found">>

\* The formatting, sort and callback of getChats on the store of client c.
AnswerChats(op, id, c) ==
  \E r \in ChatOrders(store[id][c]) :
    last' = Answer(op, id, c, "getChats", <<"success">>, r)

\* socket.on('getChats') up to its callback or to the await of fetchChats.
GetChats(id) ==
  /\ UNCHANGED <<lifeVars, store, inboundSinceRead>>
  /\ IF ~ClientExists(id)
     THEN /\ last' = Answer("getChats", id, NoClient, "-", ClientNotFound, <<>>)
          /\ UNCHANGED asking
     ELSE LET c == clients[id] IN
            IF DOMAIN store[id][c].chats = {}
            THEN /\ CanAsk(id, Call("getChats", c, NoJid, "fetchChats"))
                 /\ asking' =
                      [asking EXCEPT ![id] =
                         @ \cup {Call("getChats", c, NoJid, "fetchChats")}]
                 /\ last' = Answer("getChats", id, c, "-", <<>>, <<>>)
            ELSE /\ AnswerChats("getChats", id, c)
                 /\ UNCHANGED asking

\* fetchChats() resolved or rejected (the rejection is only logged): the
\* handler goes on with the store of the client it looked up.
FetchChatsSettled(id, call) ==
  /\ call \in asking[id]
  /\ call.stage = "fetchChats"
  /\ asking' = [asking EXCEPT ![id] = @ \ {call}]
  /\ AnswerChats("fetchChatsSettled", id, call.sock)
  /\ UNCHANGED <<lifeVars, store, inboundSinceRead>>

\* The formatting, sort and callback of getChatMessages.
AnswerMessages(op, id, c, list) ==
  \E r \in MessageOrders(list) :
    last' = Answer(op, id, c, "getChatMessages", <<"success">>, r)

\* socket.on('getChatMessages') up to the await of readMessages.
GetChatMessages(id, jid) ==
  /\ UNCHANGED <<lifeVars, store, inboundSinceRead>>
  /\ IF ~ClientExists(id)
     THEN /\ last' = Answer("getChatMessages", id, NoClient, "-",
                            ClientNotFound, <<>>)
          /\ UNCHANGED asking
     ELSE LET call == Call("getChatMessages", clients[id], jid, "readMessages")
          IN /\ CanAsk(id, call)
             /\ asking' = [asking EXCEPT ![id] = @ \cup {call}]
             /\ last' = Answer("getChatMessages", id, clients[id], "-", <<>>,
                               <<>>)

\* socket.on('markChatAsRead') up to the await of readMessages.
MarkChatAsRead(id, jid) ==
  /\ UNCHANGED <<lifeVars, store, inboundSinceRead>>
  /\ IF ~ClientExists(id)
     THEN /\ last' = Answer("markChatAsRead", id, NoClient, "-",
                            ClientNotFound, <<>>)
          /\ UNCHANGED asking
     ELSE LET call == Call("markChatAsRead", clients[id], jid, "readMessages")
          IN /\ CanAsk(id, call)
             /\ asking' = [asking EXCEPT ![id] = @ \cup {call}]
             /\ last' = Answer("markChatAsRead", id, clients[id], "-", <<>>,
                               <<>>)

\* readMessages() resolved (ok) or rejected, for either command that awaits
\* it. markChatAsRead answers; getChatMessages goes on to the messages of the
\* store, or to the await of fetchMessagesFromWA when it holds none.
ReadMessagesSettled(id, call, ok) ==
  /\ call \in asking[id]
  /\ call.stage = "readMessages"
  /\ LET c == call.sock
         st == IF ok THEN MarkRead(store[id][c], call.jid) ELSE store[id][c]
     IN /\ store' = [store EXCEPT ![id][c] = st]
        /\ inboundSinceRead' =
             IF ok THEN [inboundSinceRead EXCEPT ![id][c][call.jid] = 0]
             ELSE inboundSinceRead
        /\ IF call.op = "markChatAsRead"
           THEN /\ asking' = [asking EXCEPT ![id] = @ \ {call}]
                /\ last' = Answer("readMessagesSettled", id, c, call.op,
                                  IF ok THEN <<"success">> ELSE <<"error">>,
                                  <<>>)
           ELSE IF MessagesOf(st, call.jid) = <<>>
           THEN /\ asking' =
                     [asking EXCEPT ![id] =
                        (@ \ {call})
                          \cup {Call(call.op, c, call.jid, "fetchMessages")}]
                /\ last' = Answer("readMessagesSettled", id, c, call.op, <<>>,
                                  <<>>)
           ELSE /\ asking' = [asking EXCEPT ![id] = @ \ {call}]
                /\ AnswerMessages("readMessagesSettled", id, c,
                                  MessagesOf(st, call.jid))
  /\ UNCHANGED lifeVars

\* fetchMessagesFromWA() resolved with the list fetched (ok), which replaces
\* the messages of the conversation, or rejected; then the callback.
FetchMessagesSettled(id, call, ok, fetched) ==
  /\ call \in asking[id]
  /\ call.stage = "fetchMessages"
  /\ asking' = [asking EXCEPT ![id] = @ \ {call}]
  /\ LET c == call.sock
         st == IF ok THEN PutMessages(store[id][c], call.jid, fetched)
               ELSE store[id][c]
     IN /\ store' = [store EXCEPT ![id][c] = st]
        /\ AnswerMessages("fetchMessagesSettled", id, c, MessagesOf(st, call.jid))
  /\ UNCHANGED <<lifeVars, inboundSinceRead>>

\* socket.on('sendMessage') up to the await of sock.sendMessage.
SendMessage(id, to) ==
  /\ UNCHANGED <<lifeVars, store, inboundSinceRead>>
  /\ IF ~ClientExists(id)
     THEN /\ last' = Answer("sendMessage", id, NoClient, "-", ClientNotFound,
                            <<>>)
          /\ UNCHANGED asking
     ELSE LET call == Call("sendMessage", clients[id], to, "sendMessage")
          IN /\ CanAsk(id, call)
             /\ asking' = [asking EXCEPT ![id] = @ \cup {call}]
             /\ last' = Answer("sendMessage", id, clients[id], "-", <<>>, <<>>)

\* Mutant of ReplyAfterSend: a failed send is answered as a success.
ReplyAfterSendAlwaysSuccess(ok) == <<"success">>

\* What sendMessage answers after its await: success with the result of the
\* client, or the message of the error caught.
ReplyAfterSend(ok) == IF ok THEN <<"success">> ELSE <<"error">>

\* sock.sendMessage() resolved (ok) or rejected; the step records which.
SendMessageSettled(id, call, ok) ==
  /\ call \in asking[id]
  /\ call.stage = "sendMessage"
  /\ asking' = [asking EXCEPT ![id] = @ \ {call}]
  /\ last' = Answer("sendMessageSettled", id, call.sock, call.op,
                    ReplyAfterSend(ok),
                    IF ok THEN <<"resolved">> ELSE <<"rejected">>)
  /\ UNCHANGED <<lifeVars, store, inboundSinceRead>>

\* ------------------------------------------------------- open and warm-up
OpenUpdate == [qr |-> FALSE, connection |-> "open", statusCode |-> "undefined"]

\* The handler of an open connection.update up to its await of fetchChats,
\* which it reaches when writeFileSync found the session folder.
ConnectionOpened(id, c) ==
  LET call == Call("connection.update", c, NoJid, "warmUp") IN
    /\ CanAsk(id, call)
    /\ folder[id] # "absent"
    /\ HandleUpdate(id, c, OpenUpdate)
    /\ asking' = [asking EXCEPT ![id] = @ \cup {call}]

\* Mutant of EmitsAfterWarmUp: a failed warm-up is notified as an error.
EmitsAfterFailedWarmUp(ok) == IF ok THEN <<>> ELSE <<"error">>

\* The handler of an open connection.update whose writeFileSync throws for
\* want of the session folder: status and ready are done, fetchChats is not
\* called.
OpenWriteFailed(id, c) ==
  /\ folder[id] = "absent"
  /\ ConnectionUpdate(id, c, OpenUpdate)

\* What the handler emits after its await of fetchChats: it logs only.
EmitsAfterWarmUp(ok) == <<>>

\* fetchChats() of the open branch resolved (ok) or rejected: try and catch
\* both log, and none of the ifs that follow applies to an open.
WarmUpSettled(id, call, ok) ==
  /\ call \in asking[id]
  /\ call.stage = "warmUp"
  /\ asking' = [asking EXCEPT ![id] = @ \ {call}]
  /\ last' = [Step("warmUpSettled", id, call.sock, "open", NoUpdate,
                    EmitsAfterWarmUp(ok), <<>>, NoClient)
                 EXCEPT !.data = IF ok THEN <<"resolved">> ELSE <<"rejected">>]
  /\ UNCHANGED <<lifeVars, store, inboundSinceRead>>

\* -------------------------------------------------------------------- spec
Next ==
  \E id \in Served :
    \/ GenerateQR(id)
    \/ ReconnectSession(id)
    \/ \E o \in Origins : CreateRegistered(id, o)
    \/ \E o \in Origins, stage \in {"provider", "construct"} :
         CreateFailed(id, o, stage)
    \/ \E c \in Socks, u \in Updates : ConnectionUpdate(id, c, u)
    \/ \E c \in Socks : CredsUpdate(id, c)
    \/ TimerFired(id)
    \/ Logout(id)
    \/ HttpLogout(id)
    \/ \E call \in loggingOut[id] : LogoutResolved(id, call)
    \/ \E call \in loggingOut[id] : LogoutRejected(id, call)

\* The start of the server, the ids that are not served without a folder.
InitOne == Init /\ \A id \in SessionIds \ Served : folder[id] = "absent"

Spec == InitOne /\ [][Next]_vars

TypeOK ==
  /\ clients \in [SessionIds -> {NoClient} \cup Socks]
  /\ sessionStatus \in [SessionIds -> Statuses]
  /\ folder \in [SessionIds -> FolderStates]
  /\ made \in [SessionIds -> 0..MaxClients]
  /\ ended \in [SessionIds -> SUBSET Socks]
  /\ timers \in [SessionIds -> 0..MaxTimers]
  /\ creating \in [SessionIds -> [Origins -> 0..MaxPending]]
  /\ \A id \in SessionIds :
       /\ clients[id] <= made[id]
       /\ ended[id] \subseteq 1..made[id]
       /\ made[id] + Pending(id) <= MaxClients
       /\ Cardinality(loggingOut[id]) <= MaxLogouts
  /\ quiet \in [SessionIds -> BOOLEAN]

\* Create commands alone: generateQR, the completion of the creations it
\* started, and the events of a client that stays connected (no close, no
\* logout, no reconnect command, no timer).
CreateNext ==
  \E id \in Served :
    \/ GenerateQR(id)
    \/ CreateRegistered(id, "generateQR")
    \/ \E stage \in {"provider", "construct"} :
         CreateFailed(id, "generateQR", stage)
    \/ \E c \in Socks, u \in {v \in Updates : v.connection # "close"} :
         ConnectionUpdate(id, c, u)
    \/ \E c \in Socks : CredsUpdate(id, c)

SpecCreate == InitOne /\ [][CreateNext]_vars

\* Reconnection alone: reconnectSession commands, the creations they and the
\* timers start, client events (close included) and timer firings (no
\* generateQR, no logout).
ReconnectNext ==
  \E id \in Served :
    \/ ReconnectSession(id)
    \/ \E o \in {"reconnectSession", "timer"} : CreateRegistered(id, o)
    \/ \E o \in {"reconnectSession", "timer"},
          stage \in {"provider", "construct"} : CreateFailed(id, o, stage)
    \/ \E c \in Socks, u \in Updates : ConnectionUpdate(id, c, u)
    \/ \E c \in Socks : CredsUpdate(id, c)
    \/ TimerFired(id)

SpecReconnect == InitOne /\ [][ReconnectNext]_vars

\* ------------------------------------------------------------- store specs
\* Timestamps (seconds): 12:00 and 23:00 of one day, 01:00 of the next.
Noon == 12 * 3600
LateEvening == 23 * 3600
NextMorning == 25 * 3600

\* Text messages of the conversations jids with ids 1..n and the given
\* timestamps.
MessagesAt(jids, n, times) ==
  {[jid |-> j, id |-> i, fromMe |-> f, ts |-> s, conversation |-> "hi",
    extendedText |-> ""] : j \in jids, i \in 1..n, f \in BOOLEAN, s \in times}

\* The same where the time plays no part.
TextMessages(jids, n) == MessagesAt(jids, n, {Noon})

InboundOnly(msgs) == {m \in msgs : ~m.fromMe}

\* The sequences of 1..n elements of S.
SeqsUpTo(S, n) == UNION {[1..k -> S] : k \in 1..n}

\* What fetchMessagesFromWA may resolve with: a history of the conversation,
\* which names no message twice.
Histories(msgs, jid) ==
  {<<>>} \cup
  {h \in SeqsUpTo({m \in msgs : m.jid = jid}, MaxMsgId) :
     \A i, j \in 1..Len(h) : i # j => h[i].id # h[j].id}

\* Chat records of a chats.set or chats.upsert: the protocol sends the count
\* it keeps, which may be missing and is -1 for a chat marked as unread.
ChatRecords(jids, names, subjects, counts) ==
  {[id |-> j, name |-> n, subject |-> s, conversationTimestamp |-> 0,
    unreadCount |-> u] : j \in jids, n \in names, s \in subjects, u \in counts}

\* The four store commands and the steps that settle their awaits.
StoreCommands(id, jids, msgs) ==
  \/ GetChats(id)
  \/ \E call \in asking[id] : FetchChatsSettled(id, call)
  \/ \E j \in jids : GetChatMessages(id, j)
  \/ \E j \in jids : MarkChatAsRead(id, j)
  \/ \E call \in asking[id], ok \in BOOLEAN : ReadMessagesSettled(id, call, ok)
  \/ \E call \in {k \in asking[id] : k.stage = "fetchMessages"} :
       \/ \E h \in Histories(msgs, call.jid) :
            FetchMessagesSettled(id, call, TRUE, h)
       \/ FetchMessagesSettled(id, call, FALSE, <<>>)
  \/ \E j \in jids : SendMessage(id, j)
  \/ \E call \in asking[id], ok \in BOOLEAN : SendMessageSettled(id, call, ok)

\* Commands against a registry that gains and loses its handle: generateQR,
\* the creations it starts, the logged-out close of a client, and the store
\* commands, whose fetched histories fill the stores.
QueryNext ==
  \E id \in Served :
    \/ GenerateQR(id)
    \/ CreateRegistered(id, "generateQR")
    \/ CreateFailed(id, "generateQR", "provider")
    \/ \E c \in Socks :
         ConnectionUpdate(id, c, [qr |-> FALSE, connection |-> "close",
                                  statusCode |-> "loggedOut"])
    \/ StoreCommands(id, {Direct}, InboundOnly(TextMessages({Direct}, 1)))

SpecQuery == InitOne /\ [][QueryNext]_vars

\* The state after generateQR, the registration of client 1 and its open
\* event for the served id: one connected client with an empty store.
Connected ==
  /\ clients = [id \in SessionIds |-> IF id \in Served THEN 1 ELSE NoClient]
  /\ sessionStatus =
       [id \in SessionIds |-> IF id \in Served THEN "connected" ELSE "unknown"]
  /\ folder = [id \in SessionIds |-> IF id \in Served THEN "files" ELSE "absent"]
  /\ made = [id \in SessionIds |-> IF id \in Served THEN 1 ELSE 0]
  /\ ended = [id \in SessionIds |-> {}]
  /\ timers = [id \in SessionIds |-> 0]
  /\ creating = [id \in SessionIds |-> [o \in Origins |-> 0]]
  /\ loggingOut = [id \in SessionIds |-> {}]
  /\ quiet = [id \in SessionIds |-> FALSE]
  /\ store =
       [id \in SessionIds |-> IF id \in Served THEN <<EmptyStore>> ELSE <<>>]
  /\ asking = [id \in SessionIds |-> {}]
  /\ inboundSinceRead =
       [id \in SessionIds |->
          IF id \in Served THEN <<[j \in Jids |-> 0]>> ELSE <<>>]
  /\ \E id \in Served :
       last = Step("connection.update", id, 1, "-",
                   [qr |-> FALSE, connection |-> "open",
                    statusCode |-> "undefined"],
                   EmitsOfUpdate([qr |-> FALSE, connection |-> "open",
                                  statusCode |-> "undefined"]),
                   <<>>, NoClient)

\* The messages of the events of StoreNext: inbound ones with ids
\* 1..MaxMsgId and one the user sent.
StoreMessages ==
  InboundOnly(TextMessages({Direct}, MaxMsgId))
    \cup (TextMessages({Direct}, 1) \ InboundOnly(TextMessages({Direct}, 1)))

\* The events of the connected client that fill its store (notify batches
\* of one or two messages, which may name one id twice) and the store
\* commands, in any interleaving.
StoreNext ==
  \E id \in Served :
    \/ \E c \in Socks, batch \in SeqsUpTo(StoreMessages, 2) :
         MessagesUpsert(id, c, "notify", batch)
    \/ \E c \in Socks, batch \in SeqsUpTo(StoreMessages, 1) :
         MessagesUpsert(id, c, "append", batch)
    \/ \E c \in Socks, j \in {Direct, Broadcast}, s \in {"READ", "DELIVERED"} :
         MessagesUpdate(id, c, <<[jid |-> j, status |-> s]>>)
    \/ StoreCommands(id, {Direct}, StoreMessages)

SpecStore == Connected /\ [][StoreNext]_vars

\* The chat records of the chats.upsert events of ChatsNext.
StoreChatRecords ==
  ChatRecords({Direct, Broadcast}, {""}, {""}, {Undefined, Num(-1), Num(2)})

\* The events that write chat entries (chats.set, chats.upsert, inbound
\* messages, read updates) and the commands that list or reset them.
ChatsNext ==
  \E id \in Served :
    \/ \E c \in Socks :
         \E chats \in SeqsUpTo(ChatRecords({Direct, Broadcast}, {""}, {""},
                                           {Undefined}), MaxBatch) :
           ChatsSet(id, c, chats)
    \/ \E c \in Socks, chat \in StoreChatRecords : ChatsUpsert(id, c, <<chat>>)
    \/ \E c \in Socks :
         \E m \in InboundOnly(TextMessages({Direct, Broadcast}, MaxMsgId)) :
           MessagesUpsert(id, c, "notify", <<m>>)
    \/ \E c \in Socks, j \in {Direct, Broadcast} :
         MessagesUpdate(id, c, <<[jid |-> j, status |-> "READ"]>>)
    \/ GetChats(id)
    \/ \E call \in asking[id] : FetchChatsSettled(id, call)
    \/ \E j \in {Direct, Broadcast} : MarkChatAsRead(id, j)
    \/ \E call \in asking[id], ok \in BOOLEAN : ReadMessagesSettled(id, call, ok)

SpecChats == Connected /\ [][ChatsNext]_vars

\* One conversation: messages arrive one at a time (a new id, or one the
\* conversation holds already), inbound or sent by the user, and the unread
\* count is reset by a read update or by markChatAsRead.
UnreadNext ==
  \E id \in Served :
    \/ \E c \in Socks, m \in TextMessages({Direct}, MaxHistory) :
         /\ c \in LiveSocks(id)
         /\ m.id <= Len(MessagesOf(store[id][c], Direct)) + 1
         /\ MessagesUpsert(id, c, "notify", <<m>>)
    \/ \E c \in Socks :
         MessagesUpdate(id, c, <<[jid |-> Direct, status |-> "READ"]>>)
    \/ MarkChatAsRead(id, Direct)
    \/ \E call \in asking[id], ok \in BOOLEAN : ReadMessagesSettled(id, call, ok)

SpecUnread == Connected /\ [][UnreadNext]_vars

\* Contact records of a contacts.update: each carries the fields it changes.
ContactRecords(jids, names, notifies) ==
  {[id |-> j, name |-> n, notify |-> a] : j \in jids, n \in names, a \in notifies}

\* Chats with or without a name and a subject, contacts with or without a
\* name and a notify alias, for a direct and a group id, and getChats.
NamesNext ==
  \E id \in Served :
    \/ \E c \in Socks :
         \E chat \in ChatRecords({Direct, Group}, {"", "Hint"}, {"", "Team"},
                                 {Undefined}) :
           ChatsSet(id, c, <<chat>>)
    \/ \E c \in Socks :
         \E contact \in ContactRecords({Direct, Group}, {Absent, "Alice"},
                                       {Absent, "Bob"}) :
           ContactsUpdate(id, c, <<contact>>)
    \/ GetChats(id)
    \/ \E call \in asking[id] : FetchChatsSettled(id, call)

SpecNames == Connected /\ [][NamesNext]_vars

\* Two conversations whose inbound messages arrive late one evening and
\* early the next morning, and getChats.
OrderNext ==
  \E id \in Served :
    \/ \E c \in Socks :
         \E m \in InboundOnly(MessagesAt({Direct, Group}, MaxMsgId,
                                         {LateEvening, NextMorning})) :
           MessagesUpsert(id, c, "notify", <<m>>)
    \/ GetChats(id)
    \/ \E call \in asking[id] : FetchChatsSettled(id, call)

SpecOrder == Connected /\ [][OrderNext]_vars

\* One conversation whose messages arrive in any order of their timestamps,
\* some without one, and getChatMessages on it.
SortedNext ==
  \E id \in Served :
    \/ \E c \in Socks :
         \E m \in InboundOnly(MessagesAt({Direct}, MaxSorted,
                                         {0, Noon, LateEvening})) :
           /\ c \in LiveSocks(id)
           /\ m.id = Len(MessagesOf(store[id][c], Direct)) + 1
           /\ MessagesUpsert(id, c, "notify", <<m>>)
    \/ GetChatMessages(id, Direct)
    \/ \E call \in asking[id], ok \in BOOLEAN : ReadMessagesSettled(id, call, ok)
    \/ \E call \in {k \in asking[id] : k.stage = "fetchMessages"} :
         \/ \E m \in InboundOnly(MessagesAt({Direct}, 1, {0, Noon})) :
              FetchMessagesSettled(id, call, TRUE, <<m>>)
         \/ FetchMessagesSettled(id, call, FALSE, <<>>)

SpecSorted == Connected /\ [][SortedNext]_vars

\* Contact updates alone, in batches: each record of the direct id carries
\* a name, a notify alias, both or neither; the one of the group id a name.
ContactsNext ==
  \E id \in Served, c \in Socks :
    \E contacts \in SeqsUpTo(ContactRecords({Direct}, {Absent, "Alice", "Al"},
                                             {Absent, "Bob"})
                               \cup ContactRecords({Group}, {"Al"}, {Absent}),
                             MaxBatch) :
      ContactsUpdate(id, c, contacts)

SpecContacts == Connected /\ [][ContactsNext]_vars

\* sendMessage on a session that receives messages, loses its connection
\* and is reconnected by the timer while a send may be in flight.
SendNext ==
  \E id \in Served :
    \/ SendMessage(id, Direct)
    \/ \E call \in asking[id], ok \in BOOLEAN : SendMessageSettled(id, call, ok)
    \/ \E c \in Socks, m \in InboundOnly(TextMessages({Direct}, 1)) :
         MessagesUpsert(id, c, "notify", <<m>>)
    \/ \E c \in Socks :
         ConnectionUpdate(id, c, [qr |-> FALSE, connection |-> "close",
                                  statusCode |-> "connectionClosed"])
    \/ TimerFired(id)
    \/ CreateRegistered(id, "timer")
    \/ CreateFailed(id, "timer", "provider")

SpecSend == Connected /\ [][SendNext]_vars

\* Two session ids served side by side: commands, client events and timer
\* firings of either id, in any interleaving; a creation starts while the
\* clients of the id stay within MaxPair.
PairNext ==
  \E id \in SessionIds :
    \/ /\ made[id] < MaxPair
       /\ Pending(id) = 0
       /\ GenerateQR(id)
    \/ CreateRegistered(id, "generateQR")
    \/ \E c \in Socks, u \in {v \in Updates : ~v.qr /\ v.statusCode # "undefined"} :
         ConnectionUpdate(id, c, u)
    \/ \E c \in Socks :
         ConnectionUpdate(id, c, [qr |-> FALSE, connection |-> "open",
                                  statusCode |-> "undefined"])
    \/ /\ made[id] + Pending(id) < MaxPair \/ ~TimerRecheck(id)
       /\ TimerFired(id)
    \/ CreateRegistered(id, "timer")
    \/ \E c \in Socks, m \in InboundOnly(TextMessages({Direct}, 1)) :
         MessagesUpsert(id, c, "notify", <<m>>)

SpecPair == Init /\ [][PairNext]_vars

\* Bound of the model: a step that will need a further client (a reconnect
\* command, a close that arms a timer) is taken while one is left for it, so
\* that no timer is held back by MaxClients.
Reserve(id) == made[id] + Pending(id) + timers[id] < MaxClients

\* Reconnection without logout and without logged-out close: reconnect
\* commands, the creations they and the timers start, the events of the
\* clients except the logged-out close, and the timers.
RetryNext ==
  \E id \in Served :
    \/ /\ Reserve(id) \/ ~sessionExists(id)
       /\ ReconnectSession(id)
    \/ \E o \in {"reconnectSession", "timer"} : CreateRegistered(id, o)
    \/ \E o \in {"reconnectSession", "timer"} : CreateFailed(id, o, "provider")
    \/ \E c \in Socks, u \in {v \in Updates : ~IsLoggedOutClose(v)} :
         /\ Reserve(id) \/ ~IsTransientClose(u)
         /\ ConnectionUpdate(id, c, u)
    \/ TimerFired(id)

\* Timers fire and the awaited calls of a creation settle.
RetryFairness ==
  \A id \in Served :
    /\ WF_vars(TimerFired(id))
    /\ WF_vars(\E o \in {"reconnectSession", "timer"} :
                 CreateRegistered(id, o) \/ CreateFailed(id, o, "provider"))

SpecRetry == InitOne /\ [][RetryNext]_vars /\ RetryFairness

\* Clients that open, with the warm-up that follows, from every status:
\* create and reconnect commands, pairing codes and closes, and logouts.
OpenNext ==
  \E id \in Served :
    \/ GenerateQR(id)
    \/ ReconnectSession(id)
    \/ \E o \in {"generateQR", "reconnectSession"} : CreateRegistered(id, o)
    \/ \E o \in {"generateQR", "reconnectSession"} :
         CreateFailed(id, o, "provider")
    \/ \E c \in Socks : ConnectionOpened(id, c)
    \/ \E c \in Socks : OpenWriteFailed(id, c)
    \/ \E call \in asking[id], ok \in BOOLEAN : WarmUpSettled(id, call, ok)
    \/ \E c \in Socks :
         ConnectionUpdate(id, c, [qr |-> TRUE, connection |-> "none",
                                  statusCode |-> "undefined"])
    \/ \E c \in Socks :
         ConnectionUpdate(id, c, [qr |-> FALSE, connection |-> "close",
                                  statusCode |-> "loggedOut"])
    \/ Logout(id)
    \/ \E call \in loggingOut[id] : LogoutResolved(id, call)
    \/ \E call \in loggingOut[id] : LogoutRejected(id, call)

SpecOpen == InitOne /\ [][OpenNext]_vars

\* The messages of the batches of UpsertNext: inbound ones of a
\* conversation, one of the status broadcast, and one the user sent.
UpsertMessages ==
  InboundOnly(TextMessages({Direct}, MaxMsgId))
    \cup InboundOnly(TextMessages({Broadcast}, 1))
    \cup (TextMessages({Direct}, 1) \ InboundOnly(TextMessages({Direct}, 1)))

\* Batches of messages.upsert of either type, with duplicates and status
\* broadcasts among them, and the read updates that reset the count.
UpsertNext ==
  \E id \in Served :
    \/ \E c \in Socks, batch \in SeqsUpTo(UpsertMessages, MaxBatch) :
         MessagesUpsert(id, c, "notify", batch)
    \/ \E c \in Socks, batch \in SeqsUpTo(UpsertMessages, 1) :
         MessagesUpsert(id, c, "append", batch)
    \/ \E c \in Socks :
         MessagesUpdate(id, c, <<[jid |-> Direct, status |-> "READ"]>>)

SpecUpsert == Connected /\ [][UpsertNext]_vars

\* Status updates of messages, one or several to an event, for a
\* conversation the store holds or not and for the status broadcast, with
\* the events that create chat entries, messages and contacts.
ReadNext ==
  \E id \in Served :
    \/ \E c \in Socks :
         \E updates \in SeqsUpTo({[jid |-> j, status |-> s] :
                                    j \in {Direct, Broadcast},
                                    s \in {"READ", "DELIVERED"}}, MaxBatch) :
           MessagesUpdate(id, c, updates)
    \/ \E c \in Socks :
         \E chat \in ChatRecords({Direct, Broadcast}, {""}, {""}, {Num(2)}) :
           ChatsUpsert(id, c, <<chat>>)
    \/ \E c \in Socks, m \in InboundOnly(TextMessages({Direct}, 1)) :
         MessagesUpsert(id, c, "notify", <<m>>)
    \/ \E c \in Socks, r \in ContactRecords({Direct}, {"Alice"}, {Absent}) :
         ContactsUpdate(id, c, <<r>>)

SpecRead == Connected /\ [][ReadNext]_vars

\* One conversation whose entry comes from a chats.upsert (with a name, with
\* or without a count) or from its first message, and messages of either
\* direction that arrive one at a time, late ones before early ones too.
IngestNext ==
  \E id \in Served :
    \/ \E c \in Socks :
         \E m \in MessagesAt({Direct}, MaxMsgId, {Noon})
                    \cup MessagesAt({Direct}, 1, {LateEvening}) :
           MessagesUpsert(id, c, "notify", <<m>>)
    \/ \E c \in Socks :
         \E chat \in ChatRecords({Direct}, {"Ann"}, {""}, {Undefined, Num(2)}) :
           ChatsUpsert(id, c, <<chat>>)
    \/ \E c \in Socks :
         MessagesUpdate(id, c, <<[jid |-> Direct, status |-> "READ"]>>)

SpecIngest == Connected /\ [][IngestNext]_vars

\* Messages with a plain text, with an extended text only, or with neither
\* (a media message).
MessageKinds(msgs) ==
  msgs \cup {[m EXCEPT !.conversation = "", !.extendedText = "see"] : m \in msgs}
       \cup {[m EXCEPT !.conversation = ""] : m \in msgs}

\* One conversation whose messages, of the three kinds, arrive in any order
\* of their timestamps, a group that has a chat entry and no message, and
\* getChats.
LastNext ==
  \E id \in Served :
    \/ \E c \in Socks :
         \E m \in MessageKinds(InboundOnly(MessagesAt({Direct}, MaxMsgId,
                                                      {Noon, LateEvening}))) :
           /\ c \in LiveSocks(id)
           /\ m.id = Len(MessagesOf(store[id][c], Direct)) + 1
           /\ MessagesUpsert(id, c, "notify", <<m>>)
    \/ \E c \in Socks, chat \in ChatRecords({Group}, {""}, {"Team"}, {Undefined}) :
         ChatsUpsert(id, c, <<chat>>)
    \/ GetChats(id)
    \/ \E call \in asking[id] : FetchChatsSettled(id, call)

SpecLast == Connected /\ [][LastNext]_vars

\* ------------------------------------------------------------------ claims
IsStep(op, id) == last'.op = op /\ last'.id = id

\* C1: under generateQR commands alone, in any interleaving, at most one
\* Protocol Client is constructed (and so at most one handle registered) for
\* a session id: check and registration act as one step.
C1_AtMostOneClientPerId == \A id \in SessionIds : made[id] <= 1

\* C2: generateQR for an id with a registered handle answers success with
\* the current status, starts no creation, constructs no client and leaves
\* registry and status unchanged.
C2_GenerateQRIdempotent ==
  [][\A id \in SessionIds :
       (IsStep("generateQR", id) /\ clients[id] # NoClient) =>
         /\ last'.reply = <<"success", sessionStatus[id]>>
         /\ last'.built = NoClient
         /\ made' = made
         /\ creating' = creating
         /\ clients' = clients
         /\ sessionStatus' = sessionStatus]_vars

C2_Witness ==
  /\ last.op = "generateQR"
  /\ last.sock # NoClient
  /\ last.reply = <<"success", "connecting">>

\* C3: a reconnect timer that fires when the status has become logged_out
\* starts no creation, constructs no client and changes neither the status
\* nor the registry.
C3_TimerAfterLoggedOutIsNoop ==
  [][\A id \in SessionIds :
       (IsStep("timer", id) /\ sessionStatus[id] = "logged_out") =>
         /\ made' = made
         /\ creating' = creating
         /\ sessionStatus' = sessionStatus
         /\ clients' = clients]_vars

C3_Witness ==
  /\ last.op = "timer"
  /\ last.via = "noop"
  /\ last.id \in SessionIds
  /\ sessionStatus[last.id] = "logged_out"

\* C4: a reconnect timer armed by an earlier close that fires after a newer
\* reconnect has started (here: right after a reconnectSession command has
\* suspended in its creation) starts no further creation, so that no second,
\* overlapping Protocol Client gets constructed.
C4_TimerAfterNewerReconnectIsNoop ==
  [][\A id \in SessionIds :
       (/\ IsStep("timer", id)
        /\ last.op = "reconnectSession"
        /\ last.id = id
        /\ creating[id]["reconnectSession"] > 0) =>
         creating' = creating]_vars

\* C5: when the logout() call of a socket logout command fails, the handle
\* is no longer registered afterwards, the session folder is unchanged and
\* logoutError is notified.
C5_LogoutFailureRemovesHandle ==
  [][\A id \in SessionIds :
       (IsStep("logoutRejected", id) /\ last'.via = "socket") =>
         /\ clients'[id] = NoClient
         /\ folder'[id] = folder[id]
         /\ last'.emits = <<"logoutError">>]_vars

\* C6, as claimed: after the logout() call of a logout command (socket or
\* HTTP) has succeeded, no handle is registered, the session folder is
\* deleted, the status is logged_out and logoutSuccess was notified once.
C6_LogoutSuccessNotifies ==
  \A id \in SessionIds :
    (last.op = "logoutResolved" /\ last.id = id) =>
      /\ clients[id] = NoClient
      /\ folder[id] = "absent"
      /\ sessionStatus[id] = "logged_out"
      /\ last.emits = <<"logoutSuccess">>

\* C6, amended: as above, but logoutSuccess is notified (once) by the socket
\* logout command only; the HTTP /logout command notifies nothing.
C6_LogoutSuccess ==
  \A id \in SessionIds :
    (last.op = "logoutResolved" /\ last.id = id) =>
      /\ clients[id] = NoClient
      /\ folder[id] = "absent"
      /\ sessionStatus[id] = "logged_out"
      /\ last.emits = (IF last.via = "socket" THEN <<"logoutSuccess">> ELSE <<>>)

C6_Witness ==
  /\ last.op = "logoutResolved"
  /\ last.via = "socket"
  /\ last.emits = <<"logoutSuccess">>

\* C7: while the logout() call of a logout command (socket or HTTP) is in
\* flight, a reconnect timer that fires starts no creation, so that no new
\* Protocol Client is constructed for the id.
C7_NoReconnectDuringLogout ==
  [][\A id \in SessionIds :
       (IsStep("timer", id) /\ loggingOut[id] # {}) =>
         creating' = creating]_vars

\* C8: a logged-out close of the registered client removes the handle, sets
\* the status to logged_out, notifies loggedOut and arms no timer; and from
\* then to the next create or reconnect command no Protocol Client is
\* constructed for the id.
C8_LoggedOutCloseEndsSession ==
  [][\A id \in SessionIds :
       /\ (/\ IsStep("connection.update", id)
           /\ IsLoggedOutClose(last'.u)
           /\ clients[id] = last'.sock) =>
            /\ clients'[id] = NoClient
            /\ sessionStatus'[id] = "logged_out"
            /\ last'.emits[Len(last'.emits)] = "loggedOut"
            /\ timers'[id] = timers[id]
       /\ (quiet[id] /\ quiet'[id]) => made'[id] = made[id]]_vars

\* The effects of a transient close that C9 states, on the step itself.
TransientCloseEffects(id) ==
  (IsStep("connection.update", id) /\ IsTransientClose(last'.u)) =>
    /\ sessionStatus'[id] = "reconnecting"
    /\ last'.emits[Len(last'.emits)] = "disconnected"
    /\ \A i \in 1..Len(last'.emits) : last'.emits[i] # "error"
    /\ timers'[id] = timers[id] + 1
    /\ clients'[id] = clients[id]

\* C9, as claimed: a transient close sets the status to reconnecting,
\* notifies disconnected, arms exactly one timer and sends no error; and the
\* registered handle stays in the registry until a timer fires.
C9_HandleStaysUntilTimer ==
  [][\A id \in SessionIds :
       /\ TransientCloseEffects(id)
       /\ (timers[id] > 0 /\ clients[id] # NoClient /\ last'.op # "timer") =>
            clients'[id] = clients[id]]_vars

\* C9, amended: the same effects, and the close itself leaves the handle
\* registered; while a timer is pending the handle is removed or replaced
\* only by a timer firing, a resolved logout, a reconnectSession command, a
\* logged-out close or a creation that completes.
C9_TransientClose ==
  [][\A id \in SessionIds :
       /\ TransientCloseEffects(id)
       /\ (timers[id] > 0 /\ clients[id] # NoClient
             /\ clients'[id] # clients[id]) =>
            \/ last'.op \in {"timer", "logoutResolved", "reconnectSession",
                             "createWhatsAppClient"}
            \/ last'.op = "connection.update" /\ IsLoggedOutClose(last'.u)]_vars

C9_Witness ==
  /\ last.op = "connection.update"
  /\ last.u.connection = "close"
  /\ last.u.statusCode = "undefined"
  /\ last.id \in SessionIds
  /\ clients[last.id] = last.sock
  /\ sessionStatus[last.id] = "reconnecting"
  /\ timers[last.id] = 1

\* C10: when session creation fails, the status is error, an error event is
\* notified and no handle is registered for the id afterwards.
C10_CreateErrorLeavesNoHandle ==
  \A id \in SessionIds :
    (last.op = "createWhatsAppClient" /\ last.id = id
       /\ last.built = NoClient) =>
      /\ sessionStatus[id] = "error"
      /\ last.emits = <<"error">>
      /\ clients[id] = NoClient

\* C11: when the creation of the client fails inside a createSession
\* (generateQR) or reconnectSession command, the response to the caller of
\* the command reports the failure (an error, not success), in addition to
\* the error event.
C11_CreateFailureReported ==
  \A id \in SessionIds :
    (last.op = "createWhatsAppClient" /\ last.id = id
       /\ last.via \in {"generateQR", "reconnectSession"}
       /\ last.built = NoClient) =>
      /\ last.emits = <<"error">>
      /\ last.reply # <<>>
      /\ last.reply[1] = "error"

\* C12: reconnectSession for an id without persisted credentials (session
\* folder absent or empty) answers the not-found error, starts no creation,
\* constructs no client and leaves registry and status unchanged, also when
\* a live handle is registered for the id.
C12_ReconnectWithoutCredentials ==
  [][\A id \in SessionIds :
       (IsStep("reconnectSession", id) /\ folder[id] \in {"absent", "empty"}) =>
         /\ last'.reply = <<"error", "Session does not exist">>
         /\ last'.built = NoClient
         /\ made' = made
         /\ creating' = creating
         /\ clients' = clients
         /\ sessionStatus' = sessionStatus]_vars

C12_Witness ==
  /\ last.op = "reconnectSession"
  /\ last.id \in SessionIds
  /\ last.reply = <<"error", "Session does not exist">>
  /\ folder[last.id] = "empty"
  /\ clients[last.id] # NoClient
  /\ clients[last.id] \in LiveSocks(last.id)

\* C13: getChats, getChatMessages, markChatAsRead and sendMessage for an id
\* with no registered handle answer the not-found error, invoke no operation
\* of a Protocol Client and leave the registry, every status and every store
\* unchanged.
C13_NoHandleNotFound ==
  [][\A id \in SessionIds :
       (/\ last'.id = id
        /\ last'.op \in {"getChats", "getChatMessages", "markChatAsRead",
                         "sendMessage"}
        /\ clients[id] = NoClient) =>
         /\ last'.reply = <<"error", "Client not found">>
         /\ asking' = asking
         /\ made' = made
         /\ clients' = clients
         /\ sessionStatus' = sessionStatus
         /\ store' = store]_vars

C13_Witness ==
  /\ last.op = "getChatMessages"
  /\ last.id \in SessionIds
  /\ last.reply = <<"error", "Client not found">>
  /\ clients[last.id] = NoClient
  /\ \E c \in DOMAIN store[last.id] :
       MessagesOf(store[last.id][c], Direct) # <<>>

C15_IngestIdempotent ==
  \A id \in SessionIds : \A c \in DOMAIN store[id] :
    \A m \in TextMessages(Jids, MaxMsgId), f \in BOOLEAN :
      LET once == IngestMessage(store[id][c], m) IN
        IngestMessage(once, [m EXCEPT !.fromMe = f]) = once

\* A notify batch of one message that the conversation already holds was
\* delivered: nothing is appended, and the unread count it left stands.
C15_Witness ==
  /\ last.op = "messages.upsert"
  /\ last.via = "notify"
  /\ SubSeq(last.data, 1, 3) = <<1, 0, 0>>
  /\ last.id \in SessionIds
  /\ ChatOf(store[last.id][last.sock], Direct).unreadCount = Num(1)
  /\ Len(MessagesOf(store[last.id][last.sock], Direct)) = 1

\* C16: under messages and read resets on one conversation, its unreadCount
\* equals the number of accepted inbound (fromSelf = false) messages since
\* the last reset: after 3 inbound and 1 self message followed by a reset it
\* is 0, and after one more inbound message it is 1.
C16_UnreadCountsInbound ==
  \A id \in SessionIds : \A c \in DOMAIN store[id] :
    LET chat == ChatOf(store[id][c], Direct) IN
      IF chat.has
      THEN chat.unreadCount = Num(inboundSinceRead[id][c][Direct])
      ELSE inboundSinceRead[id][c][Direct] = 0

\* Three inbound messages and one of the user, a reset, one more inbound.
C16_Witness ==
  /\ last.op = "messages.upsert"
  /\ last.id \in SessionIds
  /\ LET list == MessagesOf(store[last.id][last.sock], Direct) IN
       /\ Len(list) = 5
       /\ [i \in 1..5 |-> list[i].fromMe] = <<FALSE, FALSE, FALSE, TRUE, FALSE>>
  /\ ChatOf(store[last.id][last.sock], Direct).unreadCount = Num(1)

\* C17: the unreadCount of every stored conversation (a missing count reads
\* as 0), and every unread value a getChats answer carries, is an integer
\* >= 0 after any sequence of messages.upsert, chats.set, chats.upsert,
\* messages.update and read commands.
C17_UnreadNeverNegative ==
  /\ \A id \in SessionIds : \A c \in DOMAIN store[id], j \in Jids :
       ChatOf(store[id][c], j).has =>
         OrZero(ChatOf(store[id][c], j).unreadCount) >= 0
  /\ (last.via = "getChats" /\ last.reply = <<"success">>) =>
       \A i \in 1..Len(last.data) : last.data[i].unread >= 0

\* C18: no getChats answer carries an entry for the status broadcast id,
\* whether the id reached the client through messages.upsert, chats.set or
\* chats.upsert.
C18_NoBroadcastListed ==
  (last.via = "getChats" /\ last.reply = <<"success">>) =>
    \A i \in 1..Len(last.data) : last.data[i].jid # Broadcast

\* getChats answered from a store that holds the broadcast chat and another.
C18_Witness ==
  /\ last.via = "getChats"
  /\ last.reply = <<"success">>
  /\ last.id \in SessionIds
  /\ ChatOf(store[last.id][last.sock], Broadcast).has
  /\ Len(last.data) = 1

\* The entries of a getChats answer, when the last step gave one.
ChatsAnswered ==
  IF last.via = "getChats" /\ last.reply = <<"success">>
  THEN {last.data[i] : i \in 1..Len(last.data)} ELSE {}

\* The precedence of the claim: hint, contact name, contact notify alias,
\* local part of the id.
NameByPrecedence(chat, contact, jid) ==
  IF ~Falsy(chat.name) THEN chat.name
  ELSE IF ~Falsy(contact.name) THEN contact.name
  ELSE IF ~Falsy(contact.notify) THEN contact.notify
  ELSE jid[1]

\* C19 (as stated): for every stored conversation of any id form, direct or
\* group, getChats resolves the display name as the name hint, else the
\* contact's name, else the contact's notify alias, else the local part of
\* the id before '@'.
C19_NamePrecedenceAnyForm ==
  \A e \in ChatsAnswered :
    LET st == store[last.id][last.sock] IN
      e.name = NameByPrecedence(ChatOf(st, e.jid), ContactOf(st, e.jid), e.jid)

\* C19 (amended): that precedence holds for direct ids; for a group id the
\* name is the hint, else the subject of the chat record, else 'Group', and
\* the contact record is not consulted.
C19_NamePrecedenceByForm ==
  \A e \in ChatsAnswered :
    LET st == store[last.id][last.sock]
        chat == ChatOf(st, e.jid)
    IN /\ e.jid = Direct =>
            e.name = NameByPrecedence(chat, ContactOf(st, e.jid), e.jid)
       /\ e.jid = Group =>
            e.name = IF ~Falsy(chat.name) THEN chat.name
                     ELSE IF ~Falsy(chat.subject) THEN chat.subject
                     ELSE "Group"

\* The example of the claim: no hint, a contact with notify 'Bob' and no
\* name resolves to 'Bob'; next to it a group without hint and subject.
C19_Witness ==
  /\ \E e \in ChatsAnswered : e.jid = Direct /\ e.name = "Bob"
  /\ \E e \in ChatsAnswered : e.jid = Group /\ e.name = "Group"
  /\ ContactOf(store[last.id][last.sock], Direct).name = Absent
  /\ ContactOf(store[last.id][last.sock], Group).has

\* C20: the list getChats returns is ordered by most recent activity first:
\* of any two returned conversations the one with the greater last-activity
\* timestamp comes first, also when the timestamps lie on different days.
C20_MostRecentFirst ==
  (last.via = "getChats" /\ last.reply = <<"success">>) =>
    LET st == store[last.id][last.sock] IN
      \A i, j \in 1..Len(last.data) :
        ChatOf(st, last.data[i].jid).conversationTimestamp
          > ChatOf(st, last.data[j].jid).conversationTimestamp
        => i < j

\* The getChatMessages call that the step answers with success, if any.
MessagesAnswered(id) ==
  {call \in asking[id] :
     /\ call \notin asking'[id]
     /\ call.op = "getChatMessages"
     /\ last'.id = id
     /\ last'.via = "getChatMessages"
     /\ last'.reply = <<"success">>}

\* C21: for every conversation with stored messages, the answer of
\* getChatMessages is a permutation of the stored records in which all the
\* records without timestamp come first and the others follow in
\* non-decreasing order of their timestamps.
C21_MessagesSortedAbsentFirst ==
  [][\A id \in SessionIds : \A call \in MessagesAnswered(id) :
       LET list == MessagesOf(store'[id][call.sock], call.jid)
           n == Len(list)
           r == last'.data
       IN /\ Len(r) = n
          /\ \E p \in [1..n -> 1..n] :
               /\ \A i, j \in 1..n : i # j => p[i] # p[j]
               /\ \A i \in 1..n : r[i] = FormatMessage(list[p[i]])
          /\ \A i, j \in 1..n : i < j =>
               /\ (r[j].timestamp = 0 => r[i].timestamp = 0)
               /\ (r[i].timestamp # 0 => r[i].timestamp <= r[j].timestamp)]_vars

\* Stored in the order 23:00, none, 12:00 and answered none, 12:00, 23:00.
C21_Witness ==
  /\ last.via = "getChatMessages"
  /\ last.reply = <<"success">>
  /\ last.id \in SessionIds
  /\ LET list == MessagesOf(store[last.id][last.sock], Direct) IN
       /\ Len(list) = 3
       /\ [i \in 1..3 |-> list[i].ts] = <<LateEvening, 0, Noon>>
  /\ Len(last.data) = 3
  /\ [i \in 1..3 |-> last.data[i].timestamp] = <<0, Noon, LateEvening>>

\* The getChatMessages call whose await of readMessages the step settles.
ReadSettledFor(id) ==
  {call \in asking[id] :
     /\ call \notin asking'[id]
     /\ call.op = "getChatMessages"
     /\ call.stage = "readMessages"
     /\ last'.id = id
     /\ last'.op = "readMessagesSettled"}

\* C22: a getChatMessages call on a registered handle and a conversation of
\* the store sets the unreadCount of the conversation to 0 before it answers
\* with success, whether the read-receipt call succeeded or not: when the
\* call goes on after its await of readMessages, the count is 0.
C22_ReadBeforeAnswer ==
  [][\A id \in SessionIds : \A call \in ReadSettledFor(id) :
       ChatOf(store[id][call.sock], call.jid).has =>
         ChatOf(store'[id][call.sock], call.jid).unreadCount = Num(0)]_vars

\* The value of a field after a batch of updates: that of the last update
\* of the batch for the id that carries the field, else the value before.
FieldAfter(old, batch, jid, field) ==
  LET carrying == {i \in 1..Len(batch) :
                     batch[i].id = jid /\ batch[i][field] # Absent}
  IN IF carrying = {} THEN old
     ELSE batch[CHOOSE i \in carrying : \A k \in carrying : k <= i][field]

\* C23: contacts.update creates the contact record when it is absent and
\* otherwise overwrites only the fields an update carries: a field that no
\* update of the batch carries keeps its value, the record of an id without
\* update does not change, and neither do chats and messages.
C23_MergeKeepsOtherFields ==
  [][\A id \in SessionIds :
       IsStep("contacts.update", id) =>
         LET c == last'.sock
             batch == last'.data
             old == store[id][c]
             new == store'[id][c]
         IN /\ new.chats = old.chats
            /\ new.messages = old.messages
            /\ \A j \in Jids :
                 IF \E i \in 1..Len(batch) : batch[i].id = j
                 THEN /\ ContactOf(new, j).has
                      /\ ContactOf(new, j).name =
                           FieldAfter(ContactOf(old, j).name, batch, j, "name")
                      /\ ContactOf(new, j).notify =
                           FieldAfter(ContactOf(old, j).notify, batch, j,
                                      "notify")
                 ELSE ContactOf(new, j) = ContactOf(old, j)]_vars

\* The example of the claim: an update with only notify on a contact that
\* has a name, next to the record of another contact.
C23_Witness ==
  /\ last.op = "contacts.update"
  /\ last.data = <<[id |-> Direct, name |-> Absent, notify |-> "Bob"]>>
  /\ last.id \in SessionIds
  /\ ContactOf(store[last.id][last.sock], Direct).name = "Alice"
  /\ ContactOf(store[last.id][last.sock], Direct).notify = "Bob"
  /\ ContactOf(store[last.id][last.sock], Group).name = "Al"

\* C24: in every reachable state an id has a registered handle only while
\* its status is connecting, qr_generated, connected or reconnecting; no
\* state has a handle together with error, logged_out or another status.
C24_HandleOnlyWhileActive ==
  \A id \in SessionIds :
    clients[id] # NoClient =>
      sessionStatus[id] \in
        {"connecting", "qr_generated", "connected", "reconnecting"}

\* C25: error and logged_out are terminal for a handle, and a retry goes
\* through a new handle: while the status of an id is error or logged_out,
\* no connection.update of the client of its handle changes the status, and
\* a generateQR command for the id starts a new creation instead of
\* answering with the old status.
C25_TerminalThenRetry ==
  [][\A id \in SessionIds :
       sessionStatus[id] \in {"error", "logged_out"} =>
         /\ (/\ IsStep("connection.update", id)
             /\ clients[id] # NoClient
             /\ last'.sock = clients[id]) =>
              sessionStatus'[id] = sessionStatus[id]
         /\ IsStep("generateQR", id) =>
              /\ last'.reply = <<>>
              /\ creating'[id]["generateQR"] = creating[id]["generateQR"] + 1]_vars

\* C26: when the send operation of the client fails, sendMessage answers
\* with the error and the session is not affected: registry, status, store
\* and pending timers are unchanged and nothing is notified; when the send
\* succeeds the answer is the success with its result.
C26_SendFailureIsLocal ==
  [][\A id \in SessionIds :
       IsStep("sendMessageSettled", id) =>
         /\ last'.data = <<"rejected">> => last'.reply = <<"error">>
         /\ last'.data = <<"resolved">> => last'.reply = <<"success">>
         /\ last'.emits = <<>>
         /\ clients' = clients
         /\ sessionStatus' = sessionStatus
         /\ store' = store
         /\ timers' = timers
         /\ made' = made]_vars

\* A send that fails after the connection closed, with the reconnect timer
\* pending and a message in the store.
C26_Witness ==
  /\ last.op = "sendMessageSettled"
  /\ last.data = <<"rejected">>
  /\ last.reply = <<"error">>
  /\ last.id \in SessionIds
  /\ timers[last.id] = 1
  /\ sessionStatus[last.id] = "reconnecting"
  /\ clients[last.id] = last.sock
  /\ MessagesOf(store[last.id][last.sock], Direct) # <<>>

\* C27: sessions are independent: a command, a client event or a timer
\* firing of one session id leaves the status, the registry entry and the
\* store (chats, contacts, messages) of every other id unchanged.
C27_SessionsIndependent ==
  [][\A a \in SessionIds : \A b \in SessionIds \ {a} :
       last'.id = a =>
         /\ sessionStatus'[b] = sessionStatus[b]
         /\ clients'[b] = clients[b]
         /\ store'[b] = store[b]]_vars

\* The reconnect timer of one id fires and discards its handle while the
\* other id is connected and holds a conversation with one unread message.
C27_Witness ==
  /\ last.op = "timer"
  /\ last.via = "reconnect"
  /\ last.id = "s1"
  /\ clients["s1"] = NoClient
  /\ sessionStatus["s2"] = "connected"
  /\ clients["s2"] # NoClient
  /\ ChatOf(store["s2"][clients["s2"]], Direct).unreadCount = Num(1)

\* C29: once reconnectSession (or a reconnect timer) has replaced the handle
\* of an id, a connection.update (qr, open, close of either kind) that the
\* discarded client delivers later changes neither the registry entry of
\* the new handle nor the status, and arms no reconnect timer.
C29_DiscardedClientIsInert ==
  [][\A id \in SessionIds :
       (/\ IsStep("connection.update", id)
        /\ clients[id] # NoClient
        /\ last'.sock # clients[id]) =>
         /\ clients'[id] = clients[id]
         /\ sessionStatus'[id] = sessionStatus[id]
         /\ timers'[id] = timers[id]]_vars

\* The last step was a transient close of the client of the registered
\* handle of id.
ClosedCurrent(id) ==
  /\ last.op = "connection.update"
  /\ last.id = id
  /\ IsTransientClose(last.u)
  /\ clients[id] = last.sock

\* The last step completed a creation for id: a new client is registered
\* with status connecting, or the creation failed and the status is error.
Recreated(id) ==
  /\ last.op = "createWhatsAppClient"
  /\ last.id = id
  /\ \/ /\ last.built # NoClient
        /\ clients[id] = last.built
        /\ sessionStatus[id] = "connecting"
     \/ /\ last.built = NoClient
        /\ sessionStatus[id] = "error"

\* C28: reconnection is automatic: with timers that fire and external calls
\* that settle, and without logout command and logged-out close, every
\* transient close of the client of the current handle is eventually
\* followed by a new client constructed and registered under the id with
\* status connecting, or by status error when the creation failed.
C28_ReconnectsEventually ==
  \A id \in SessionIds : ClosedCurrent(id) ~> Recreated(id)

\* C30: the message sequence of a conversation is append-only: a record that
\* messages.upsert has appended stays at its position in every later state,
\* under every interleaving of messages.upsert events with getChatMessages
\* calls: each step leaves the sequence a prefix of the one after it.
C30_MessagesAppendOnly ==
  [][\A id \in SessionIds : \A c \in DOMAIN store[id] : \A j \in Jids :
       LET old == MessagesOf(store[id][c], j)
           new == MessagesOf(store'[id][c], j)
       IN /\ Len(old) <= Len(new)
          /\ \A i \in 1..Len(old) : new[i] = old[i]]_vars

\* C31: a logout removes only the handle whose logout() it invoked: when
\* the registered handle was replaced while the call was suspended, the
\* completion of the logout leaves the newer handle registered; and after a
\* successful logout no client constructed for the id is live without
\* being registered.
C31_LogoutRemovesOwnHandle ==
  [][\A id \in SessionIds :
       IsStep("logoutResolved", id) =>
         /\ (clients[id] # NoClient /\ clients[id] # last'.sock) =>
              clients'[id] = clients[id]
         /\ \A c \in (1..made'[id]) \ ended'[id] : clients'[id] = c]_vars

\* C32: when a client reports an open connection, from any prior status,
\* the status becomes connected, ready is notified and the connection
\* metadata record is written to the session folder; a failure of the
\* fetchChats warm-up that follows leaves status and registry unchanged and
\* notifies no error.
C32_OpenThenWarmUp ==
  [][\A id \in SessionIds :
       /\ (IsStep("connection.update", id) /\ IsOpen(last'.u)) =>
            /\ sessionStatus'[id] = "connected"
            /\ \E i \in 1..Len(last'.emits) : last'.emits[i] = "ready"
            /\ folder'[id] = "files"
       /\ (IsStep("warmUpSettled", id) /\ last'.data = <<"rejected">>) =>
            /\ sessionStatus'[id] = sessionStatus[id]
            /\ clients'[id] = clients[id]
            /\ last'.emits = <<>>]_vars

\* C33: a messages.upsert whose type is not notify leaves the store
\* unchanged and notifies nothing; one of type notify ingests every message
\* in batch order and then emits exactly one newMessage whose messages are
\* the batch as received, also when every message was discarded.
C33_UpsertForwardsBatch ==
  [][\A id \in SessionIds :
       IsStep("messages.upsert", id) =>
         LET c == last'.sock
             payload == last'.data[4]
         IN /\ last'.via # "notify" =>
                 /\ store'[id][c] = store[id][c]
                 /\ last'.emits = <<>>
            /\ last'.via = "notify" =>
                 /\ last'.emits = <<"newMessage">>
                 /\ Len(payload) = last'.data[1]
                 /\ Skipped(payload) = last'.data[3]
                 /\ store'[id][c] = IngestAll(store[id][c], payload)
            /\ \A k \in DOMAIN store[id] \ {c} :
                 store'[id][k] = store[id][k]]_vars

\* A notify batch of a duplicate and a status broadcast was delivered:
\* nothing was appended, both messages were forwarded.
C33_Witness ==
  /\ last.op = "messages.upsert"
  /\ last.via = "notify"
  /\ SubSeq(last.data, 1, 3) = <<2, 0, 1>>
  /\ Len(last.data[4]) = 2
  /\ last.emits = <<"newMessage">>

\* The entries of a messages.update that reset a count in store st.
ReadsOf(st, updates) ==
  SelectSeq(updates, LAMBDA up : /\ up.jid # Broadcast
                                 /\ up.status = "READ"
                                 /\ ChatOf(st, up.jid).has)

\* C34: each entry of a messages.update that carries a read status for a
\* conversation the store holds sets that conversation's unread count to 0
\* and emits one chatUpdate with its id and unread 0; an entry for a
\* conversation the store does not hold, with another status, or for the
\* status broadcast changes nothing and emits nothing; messages, contacts
\* and the other conversations are never changed.
C34_ReadUpdateResetsCount ==
  [][\A id \in SessionIds :
       IsStep("messages.update", id) =>
         LET c == last'.sock
             st == store[id][c]
             reads == ReadsOf(st, last'.data[1])
             read == {reads[i].jid : i \in 1..Len(reads)}
         IN /\ last'.data[2] =
                 [i \in 1..Len(reads) |-> [jid |-> reads[i].jid, unread |-> 0]]
            /\ last'.emits = [i \in 1..Len(reads) |-> "chatUpdate"]
            /\ \A j \in Jids :
                 ChatOf(store'[id][c], j) =
                   IF j \in read
                   THEN [ChatOf(st, j) EXCEPT !.unreadCount = Num(0)]
                   ELSE ChatOf(st, j)
            /\ store'[id][c].messages = st.messages
            /\ store'[id][c].contacts = st.contacts]_vars

\* One event brought a read update for a conversation held with an unread
\* count, one for the status broadcast, whose chat entry has a count too.
C34_Witness ==
  /\ last.op = "messages.update"
  /\ last.id \in SessionIds
  /\ last.data[1] = <<[jid |-> Broadcast, status |-> "READ"],
                      [jid |-> Direct, status |-> "READ"]>>
  /\ last.emits = <<"chatUpdate">>
  /\ LET st == store[last.id][last.sock]
     IN /\ ChatOf(st, Direct).unreadCount = Num(0)
        /\ ChatOf(st, Broadcast).unreadCount = Num(2)
        /\ MessagesOf(st, Direct) # <<>>
        /\ ContactOf(st, Direct).has

\* C35: the unreadCount of a conversation (a missing count reads as 0)
\* changes only by 1 for each inbound message accepted for it and by the
\* reset to 0 of a read acknowledgment; chats.set, chats.upsert,
\* contacts.update, a message of the user and a duplicate leave it alone.
C35_UnreadChangesOnlyTwoWays ==
  [][\A id \in SessionIds : \A c \in DOMAIN store[id], j \in Jids :
       LET before == OrZero(ChatOf(store[id][c], j).unreadCount)
           after == OrZero(ChatOf(store'[id][c], j).unreadCount)
       IN after # before =>
            \/ /\ IsStep("messages.upsert", id)
               /\ last'.sock = c
               /\ InboundAccepted(store[id][c], last'.data[4], j) > 0
               /\ after = before
                           + InboundAccepted(store[id][c], last'.data[4], j)
            \/ /\ IsStep("messages.update", id) \/ IsStep("readMessagesSettled", id)
               /\ last'.sock = c
               /\ after = 0]_vars

\* C36: when the ingestion accepts a message, a conversation without an
\* entry gets one whose timestamp is the message's and whose unreadCount is
\* 1 for an inbound message and 0 for one of the user; an entry that exists
\* takes the message's timestamp (an older one too), its unreadCount grows
\* by 1 for an inbound message only, and its other fields are kept.
C36_IngestUpdatesChat ==
  [][\A id \in SessionIds :
       (/\ IsStep("messages.upsert", id)
        /\ SubSeq(last'.data, 1, 3) = <<1, 1, 0>>) =>
         LET msg == last'.data[4][1]
             old == ChatOf(store[id][last'.sock], msg.jid)
             new == ChatOf(store'[id][last'.sock], msg.jid)
         IN /\ new.has
            /\ new.conversationTimestamp = msg.ts
            /\ ~old.has =>
                 new.unreadCount = Num(IF msg.fromMe THEN 0 ELSE 1)
            /\ old.has =>
                 /\ new.unreadCount =
                      IF msg.fromMe THEN old.unreadCount
                      ELSE Num(OrZero(old.unreadCount) + 1)
                 /\ new.name = old.name
                 /\ new.subject = old.subject]_vars

\* An inbound message of noon was accepted for a conversation whose named
\* entry carried the timestamp of a message of the late evening.
C36_Witness ==
  /\ last.op = "messages.upsert"
  /\ last.id \in SessionIds
  /\ SubSeq(last.data, 1, 3) = <<1, 1, 0>>
  /\ last.data[4][1].ts = Noon
  /\ ~last.data[4][1].fromMe
  /\ LET st == store[last.id][last.sock]
     IN /\ ChatOf(st, Direct).name = "Ann"
        /\ ChatOf(st, Direct).conversationTimestamp = Noon
        /\ ChatOf(st, Direct).unreadCount = Num(3)
        /\ \E i \in 1..Len(MessagesOf(st, Direct)) :
             MessagesOf(st, Direct)[i].ts = LateEvening

\* C37: ingesting a message of the status broadcast leaves the whole store
\* as it was: no message sequence is created or extended, no chat entry is
\* created or updated, no unreadCount changes; the store after a batch is
\* the one its other messages alone would have left.
C37_BroadcastIsNotStored ==
  [][\A id \in SessionIds :
       (IsStep("messages.upsert", id) /\ last'.via = "notify") =>
         LET c == last'.sock
             others == SelectSeq(last'.data[4], LAMBDA m : m.jid # Broadcast)
         IN /\ store'[id][c] = IngestAll(store[id][c], others)
            /\ others = <<>> => store'[id] = store[id]]_vars

\* A message of the status broadcast arrived while the store held a chat
\* entry for the broadcast id with a count of 2.
C37_Witness ==
  /\ last.op = "messages.upsert"
  /\ last.via = "notify"
  /\ last.id \in SessionIds
  /\ Len(last.data[4]) = 1
  /\ last.data[4][1].jid = Broadcast
  /\ ChatOf(store[last.id][last.sock], Broadcast).unreadCount = Num(2)
  /\ MessagesOf(store[last.id][last.sock], Direct) # <<>>

\* C38: every entry of a getChats answer takes lastMessage and time from
\* the record appended last to the conversation's sequence (arrival order,
\* not the greatest timestamp): the plain text, else the extended text,
\* else the media placeholder; an entry of a conversation without stored
\* message has an empty lastMessage and time. getChats leaves chats,
\* contacts and messages as they were.
C38_LastMessageIsLastAppended ==
  [][\A id \in SessionIds :
       (/\ last'.id = id
        /\ last'.via = "getChats"
        /\ last'.reply = <<"success">>) =>
         /\ store' = store
         /\ \A i \in 1..Len(last'.data) :
              LET entry == last'.data[i]
                  list == MessagesOf(store[id][last'.sock], entry.jid)
                  lastMsg == list[Len(list)]
              IN IF list = <<>>
                 THEN entry.lastMessage = "" /\ entry.time = NoTime
                 ELSE /\ entry.lastMessage =
                           IF lastMsg.conversation # "" THEN lastMsg.conversation
                           ELSE IF lastMsg.extendedText # ""
                                THEN lastMsg.extendedText
                           ELSE "Media message"
                      /\ entry.time = formatTime(lastMsg.ts)]_vars

\* getChats answered with a group without message and a conversation whose
\* last message, with an extended text only, is of noon and follows one of
\* the late evening.
C38_Witness ==
  /\ last.via = "getChats"
  /\ last.reply = <<"success">>
  /\ Len(last.data) = 2
  /\ \E i \in 1..2 :
       /\ last.data[i].jid = Group
       /\ last.data[i].lastMessage = ""
       /\ last.data[i].time = NoTime
  /\ \E i \in 1..2 :
       /\ last.data[i].jid = Direct
       /\ last.data[i].lastMessage = "see"
       /\ last.data[i].time = formatTime(Noon)
  /\ last.id \in SessionIds
  /\ MessagesOf(store[last.id][last.sock], Direct)[1].ts = LateEvening

\* C39: every connection.update that carries a pairing code is forwarded as
\* one qrCode; the status becomes qr_generated only from connecting or
\* qr_generated, and a repeated code leaves the status qr_generated and the
\* registry as they were.
C39_PairingCodeForwarded ==
  [][\A id \in SessionIds :
       (/\ IsStep("connection.update", id)
        /\ last'.u.qr
        /\ last'.u.connection = "none") =>
         /\ last'.emits = <<"qrCode">>
         /\ sessionStatus'[id] # sessionStatus[id] =>
              sessionStatus[id] = "connecting"
         /\ sessionStatus[id] \in {"connecting", "qr_generated"} =>
              sessionStatus'[id] = "qr_generated"
         /\ clients'[id] = clients[id]]_vars

\* C40: whenever the status that checkSession and /check-status report for
\* an id is connected, a handle is registered for the id, also while a
\* reconnectSession is suspended between discarding the old handle and
\* registering the new one.
C40_ConnectedHasHandle ==
  \A id \in SessionIds :
    sessionStatus[id] = "connected" => ClientExists(id)

====
